---------------------------- MODULE Spec2Model ----------------------------
(***************************************************************************)
(* A model of perky's permutation-search engine (src/src/permutations.rs)  *)
(* and of the permutation helpers it uses (src/src/util/math.rs).          *)
(*                                                                         *)
(* Conventions.                                                            *)
(*  - Option<T> is a sequence: None is << >>, Some(x) is << x >>.          *)
(*  - A VecDeque / Vec / array is a sequence; Rust's 0-based position p is *)
(*    position p + 1 of the sequence.                                      *)
(*  - A record-set entry (score, index, matrix) is the record              *)
(*    [score, index, matrix].                                              *)
(*  - A key matrix [[u8; C]; R] is flattened to a sequence of bytes, and a *)
(*    coordinate (r, c) to the position of the cell in that sequence.      *)
(*  - The f64 tolerance is the pair << num, den >> standing for num / den. *)
(*    For the tolerances of the model (0, 3/4, 9/10, 1) and every u64 the  *)
(*    model can hold, the exact quotient and product round to the same     *)
(*    integer as the IEEE-754 double computation of the source.            *)
(***************************************************************************)
EXTENDS Integers, Sequences, FiniteSets, TLC

VARIABLES
    input,       \* the arguments of permute_and_substitute, fixed for a run
    scoring_fn,  \* the scoring closure, revealed matrix by matrix
    seq,         \* the frame of permute_and_substitute_sequential
    par,         \* the frame of permute_and_substitute_parallel
    dec,         \* the frame of a caller decoding every index of a pool
    adm,         \* a record set fed by consider_record, score by score
    sco,         \* the frames of the three scoring variants on one slice
    expr,        \* an expression with what reduce and evaluate make of it
    prs,         \* a token list with what the parser makes of it
    rcd,         \* a record list on its way through sort, filter and select
    lay,         \* a layout table and the key table it is masked by
    cnt,         \* the shared counter and the progress calls of a parallel search
    thr,         \* a throttle wrapper, its clock and the calls made through it
    red          \* partial results fed by consider_record and merged by reduce

vars == << input, scoring_fn, seq, par, dec, adm, sco, expr, prs, rcd, lay, cnt, thr, red >>

\* the variables of a search
search_vars == << input, scoring_fn, seq, par >>

\* the variables a search leaves alone
outside_search == << dec, adm, sco, expr, prs, rcd, lay, cnt, thr, red >>

\* the variables the other entry points leave alone
outside_decode == << search_vars, adm, sco, expr, prs, rcd, lay, cnt, thr, red >>
outside_admission == << search_vars, dec, sco, expr, prs, rcd, lay, cnt, thr, red >>
outside_scoring == << search_vars, dec, adm, expr, prs, rcd, lay, cnt, thr, red >>
outside_expression == << search_vars, dec, adm, sco, prs, rcd, lay, cnt, thr, red >>
outside_parser == << search_vars, dec, adm, sco, expr, rcd, lay, cnt, thr, red >>
outside_records == << search_vars, dec, adm, sco, expr, prs, lay, cnt, thr, red >>
outside_layout == << search_vars, dec, adm, sco, expr, prs, rcd, cnt, thr, red >>
outside_counter == << search_vars, dec, adm, sco, expr, prs, rcd, lay, thr, red >>
outside_throttle == << search_vars, dec, adm, sco, expr, prs, rcd, lay, cnt, red >>
outside_reduction == << search_vars, dec, adm, sco, expr, prs, rcd, lay, cnt, thr >>

(***************************************************************************)
(* Bounds of the model.                                                    *)
(***************************************************************************)
\* scores returned by the scoring closure range over 0 .. MaxScore
MaxScore == 3
\* the record caps tried are None and Some(0) .. Some(MaxRecordCap)
MaxRecordCap == 1
\* the largest permutation cap tried, besides None and Some(0)
MaxPermutationCap == 2
\* pools decoded by index_to_permutation range over lengths 0 .. MaxPoolLen
MaxPoolLen == 3

\* u64::MAX, scaled to the integers of the model checker; every score of the
\* model lies strictly below it
U64_MAX == 1000000

\* BATCH of the parallel variant
BATCH == 1000

None == << >>
Some(x) == << x >>
IsSome(o) == Len(o) = 1
Unwrap(o) == o[1]
unwrap_or(o, d) == IF IsSome(o) THEN o[1] ELSE d

Min2(a, b) == IF a <= b THEN a ELSE b

(***************************************************************************)
(* src/src/util/math.rs                                                    *)
(***************************************************************************)
RECURSIVE factorial(_)
factorial(n) == IF n <= 0 THEN 1 ELSE n * factorial(n - 1)

\* Vec::remove(pos) / the shift-left loop `available[j] = available[j + 1]`
RemoveAt(s, p) == [k \in 1..(Len(s) - 1) |-> IF k < p THEN s[k] ELSE s[k + 1]]

\* index_to_permutation: the loop `for i in (1..=available.len()).rev()`
RECURSIVE index_to_permutation_loop(_, _, _, _)
index_to_permutation_loop(i, index, available, output) ==
    IF i < 1 THEN output
    ELSE LET f == factorial(i - 1)
             pos == index \div f
         IN index_to_permutation_loop(i - 1, index % f, RemoveAt(available, pos + 1),
                                      Append(output, available[pos + 1]))

index_to_permutation(index, in) ==
    index_to_permutation_loop(Len(in), index, in, << >>)

\* in_place_step without the shift-left loop: the chosen element stays available
in_place_step_no_shift(d) ==
    LET pos == d.index \div d.f
        remaining == d.remaining - 1
    IN [d EXCEPT !.index = d.index % d.f,
                 !.output = Append(d.output, d.available[pos + 1]),
                 !.remaining = remaining,
                 !.f = IF remaining > 1 THEN d.f \div remaining ELSE d.f,
                 !.i = d.i + 1]

\* one iteration of the loop of index_to_permutation_in_place on the frame
\* [index, f, remaining, available, output, i]
in_place_step(d) ==
    LET pos == d.index \div d.f
        remaining == d.remaining - 1
    IN [d EXCEPT !.index = d.index % d.f,
                 !.output = Append(d.output, d.available[pos + 1]),
                 !.available = RemoveAt(d.available, pos + 1),
                 !.remaining = remaining,
                 !.f = IF remaining > 1 THEN d.f \div remaining ELSE d.f,
                 !.i = d.i + 1]

\* in_place_entry without `f /= input_length`: the loop starts from n!
in_place_entry_no_division(index, in) ==
    [index |-> index, in |-> in, f |-> factorial(Len(in)),
     remaining |-> Len(in), available |-> in, output |-> << >>, i |-> 0]

\* the frame of index_to_permutation_in_place on entry to its loop
in_place_entry(index, in) ==
    [index |-> index, in |-> in, f |-> factorial(Len(in)) \div Len(in),
     remaining |-> Len(in), available |-> in, output |-> << >>, i |-> 0]

RECURSIVE in_place_run(_)
in_place_run(d) == IF d.i >= Len(d.in) THEN d.output ELSE in_place_run(in_place_step(d))

\* index_to_permutation_in_place: output[.. input.len()] after the call
index_to_permutation_in_place(index, in) ==
    IF Len(in) = 0 THEN << >> ELSE in_place_run(in_place_entry(index, in))

Swap(s, a, b) == [s EXCEPT ![a] = s[b], ![b] = s[a]]

RECURSIVE permute(_, _, _)
RECURSIVE permute_from(_, _, _, _)
\* the arrays generate_permutations_to_limit::permute hands to a callback that
\* always answers true, in call order (slice positions are 0-based in the source)
permute(slice, start, limit) ==
    IF start = limit THEN << slice >> ELSE permute_from(slice, start, limit, start)

\* the iterations i, i + 1, .., limit - 1 of permute's `for i in start..limit`
permute_from(slice, start, limit, i) ==
    IF i >= limit THEN << >>
    ELSE permute(Swap(slice, start + 1, i + 1), start + 1, limit)
         \o permute_from(slice, start, limit, i + 1)

generate_permutations_to_limit(array, limit) ==
    permute(array, 0, Min2(limit, Len(array)))


(***************************************************************************)
(* src/src/permutations.rs: the record set                                 *)
(***************************************************************************)
\* f64 `as u64`: a saturating cast
as_u64(x) == IF x < 0 THEN 0 ELSE IF x > U64_MAX THEN U64_MAX ELSE x

\* floor(best * tolerance) and ceil(best / tolerance), tolerance = num / den
floor_mul(best, tolerance) == (best * tolerance[1]) \div tolerance[2]
ceil_div(best, tolerance) ==
    (best * tolerance[2] + tolerance[1] - 1) \div tolerance[1]

\* calculate_threshold rounding down where the source rounds up
calculate_threshold_floor(goal, best, tolerance) ==
    IF tolerance[1] = tolerance[2] THEN best
    ELSE CASE goal = "Max" /\ tolerance[1] = 0 -> 0
           [] goal = "Max" -> as_u64(floor_mul(best, tolerance))
           [] goal = "Min" /\ tolerance[1] = 0 -> U64_MAX
           [] goal = "Min" -> as_u64((best * tolerance[2]) \div tolerance[1])

calculate_threshold(goal, best, tolerance) ==
    IF tolerance[1] = tolerance[2] THEN best
    ELSE CASE goal = "Max" /\ tolerance[1] = 0 -> 0
           [] goal = "Max" -> as_u64(floor_mul(best, tolerance))
           [] goal = "Min" /\ tolerance[1] = 0 -> U64_MAX
           [] goal = "Min" -> as_u64(ceil_div(best, tolerance))

\* drop_above_threshold that also drops the entries equal to the threshold
RECURSIVE drop_above_threshold_strict(_, _)
drop_above_threshold_strict(deque, threshold) ==
    IF deque = << >> THEN deque
    ELSE IF Head(deque).score < threshold THEN deque
    ELSE drop_above_threshold_strict(Tail(deque), threshold)

RECURSIVE drop_above_threshold(_, _)
drop_above_threshold(deque, threshold) ==
    IF deque = << >> THEN deque
    ELSE IF Head(deque).score <= threshold THEN deque
    ELSE drop_above_threshold(Tail(deque), threshold)

\* drop_below_threshold that drops nothing
drop_below_threshold_keep(deque, threshold) == deque

RECURSIVE drop_below_threshold(_, _)
drop_below_threshold(deque, threshold) ==
    IF deque = << >> THEN deque
    ELSE IF deque[Len(deque)].score >= threshold THEN deque
    ELSE drop_below_threshold(SubSeq(deque, 1, Len(deque) - 1), threshold)

\* the comparator insert_sorted hands to binary_search_by
insert_cmp(e, score, index) ==
    IF e.score > score THEN "Less"
    ELSE IF e.score < score THEN "Greater"
    ELSE IF e.index < index THEN "Less"
    ELSE IF e.index > index THEN "Greater"
    ELSE "Equal"

\* binary_search_by on a deque sorted under the comparator: Ok(i) => i + 1 for
\* an equal element at i, Err(i) => i, the number of elements that are Less
insert_position(deque, score, index) ==
    LET equal == {k \in 1..Len(deque) : insert_cmp(deque[k], score, index) = "Equal"}
        less == {k \in 1..Len(deque) : insert_cmp(deque[k], score, index) = "Less"}
    IN IF equal # {} THEN CHOOSE k \in equal : TRUE ELSE Cardinality(less)

InsertAt(s, pos, e) ==
    SubSeq(s, 1, pos) \o << e >> \o SubSeq(s, pos + 1, Len(s))

insert_sorted(deque, score, index, matrix) ==
    InsertAt(deque, insert_position(deque, score, index),
             [score |-> score, index |-> index, matrix |-> matrix])

\* truncate that cuts nothing
truncate_keep(deque, goal, max_records_opt) == deque

truncate(deque, goal, max_records_opt) ==
    IF IsSome(max_records_opt)
    THEN LET max_records == Unwrap(max_records_opt)
             length == Len(deque)
         IN IF goal = "Max" THEN SubSeq(deque, 1, Min2(max_records, length))
            ELSE IF length <= max_records THEN deque
            ELSE SubSeq(deque, length - max_records + 1, length)
    ELSE deque

\* consider_record on the record set rs = [records, best_score, threshold_score]
consider_record(matrix, score, index, goal, tolerance, max_records_opt, rs) ==
    LET improves == IF goal = "Max" THEN score > rs.best_score
                    ELSE score < rs.best_score
        best == IF improves THEN score ELSE rs.best_score
        threshold == IF improves THEN calculate_threshold(goal, best, tolerance)
                     ELSE rs.threshold_score
        pruned == IF ~improves THEN rs.records
                  ELSE IF goal = "Max" THEN drop_below_threshold(rs.records, threshold)
                  ELSE drop_above_threshold(rs.records, threshold)
        admitted == IF goal = "Max" THEN score >= threshold ELSE score <= threshold
    IN [records |-> IF admitted
                    THEN truncate(insert_sorted(pruned, score, index, matrix),
                                  goal, max_records_opt)
                    ELSE pruned,
        best_score |-> best,
        threshold_score |-> threshold]

initial_score(goal) == IF goal = "Max" THEN 0 ELSE U64_MAX

\* the identity closures of fold and reduce, and the sequential start
identity(goal, tolerance) ==
    [records |-> << >>,
     best_score |-> initial_score(goal),
     threshold_score |-> calculate_threshold(goal, initial_score(goal), tolerance)]

\* the reduce closure's merge loop taking the left entry on every tie of scores
RECURSIVE merge_loop_left_on_tie(_, _, _, _)
merge_loop_left_on_tie(left, right, merged, max_records_opt) ==
    IF left = << >> \/ right = << >>
    THEN [left |-> left, right |-> right, merged |-> merged, returned |-> FALSE]
    ELSE IF IsSome(max_records_opt) /\ Len(merged) >= Unwrap(max_records_opt)
    THEN [left |-> left, right |-> right, merged |-> merged, returned |-> TRUE]
    ELSE IF Head(left).score >= Head(right).score
    THEN merge_loop_left_on_tie(Tail(left), right, Append(merged, Head(left)),
                                max_records_opt)
    ELSE merge_loop_left_on_tie(left, Tail(right), Append(merged, Head(right)),
                                max_records_opt)

\* reduce closure, `while !left.is_empty() && !right.is_empty()`: the frame is
\* [left, right, merged, returned]
RECURSIVE merge_loop(_, _, _, _)
merge_loop(left, right, merged, max_records_opt) ==
    IF left = << >> \/ right = << >>
    THEN [left |-> left, right |-> right, merged |-> merged, returned |-> FALSE]
    ELSE IF IsSome(max_records_opt) /\ Len(merged) >= Unwrap(max_records_opt)
    THEN [left |-> left, right |-> right, merged |-> merged, returned |-> TRUE]
    ELSE LET l == Head(left)
             r == Head(right)
         IN IF l.score > r.score \/ (l.score = r.score /\ l.index <= r.index)
            THEN merge_loop(Tail(left), right, Append(merged, l), max_records_opt)
            ELSE merge_loop(left, Tail(right), Append(merged, r), max_records_opt)

\* `while merged.len() < max_records { pop_front or break }`
RECURSIVE merge_fill(_, _, _)
merge_fill(merged, from, max_records) ==
    IF Len(merged) < max_records /\ from # << >>
    THEN merge_fill(Append(merged, Head(from)), Tail(from), max_records)
    ELSE merged

\* the part of the reduce closure after left and right are chosen and pruned
merge_records(left, right, max_records_opt) ==
    LET m == merge_loop(left, right, << >>, max_records_opt)
    IN IF m.returned THEN m.merged
       ELSE IF IsSome(max_records_opt)
       THEN merge_fill(merge_fill(m.merged, m.left, Unwrap(max_records_opt)),
                       m.right, Unwrap(max_records_opt))
       ELSE m.merged \o m.left \o m.right

\* the reduce closure designating its first operand as left whatever the scores
first_is_left_always(goal, best_score_1, best_score_2) == TRUE

\* which operand the reduce closure designates as left
first_is_left(goal, best_score_1, best_score_2) ==
    IF goal = "Max" THEN best_score_1 >= best_score_2
    ELSE best_score_1 <= best_score_2

\* the pruning the reduce closure applies to both operands
reduce_prune(goal, deque, threshold_score) ==
    IF goal = "Max" THEN drop_below_threshold(deque, threshold_score)
    ELSE drop_above_threshold(deque, threshold_score)

\* the reduce closure of permute_and_substitute_parallel
reduce_op(p1, p2, goal, max_records_opt) ==
    LET first == first_is_left(goal, p1.best_score, p2.best_score)
        win == IF first THEN p1 ELSE p2
        lose == IF first THEN p2 ELSE p1
        left == reduce_prune(goal, win.records, win.threshold_score)
        right == reduce_prune(goal, lose.records, win.threshold_score)
    IN [records |-> merge_records(left, right, max_records_opt),
        best_score |-> win.best_score,
        threshold_score |-> win.threshold_score]

(***************************************************************************)
(* src/src/permutations.rs: the inputs of a search                         *)
(***************************************************************************)
Goals == {"Max", "Min"}

\* tolerances 0.75 and 1.0 (tolerance.clamp(0.0, 1.0) leaves them as they are);
\* tolerance 0.0, under which nothing is ever pruned, is tried by SpecAdmission
Tolerances == {<< 3, 4 >>, << 1, 1 >>}

Scores == 0..MaxScore

\* max_records_opt: Option<u32>
RecordCaps == {None} \cup {Some(k) : k \in 0..MaxRecordCap}

\* max_permutations_opt: Option<u64>
PermutationCaps == {None, Some(0), Some(MaxPermutationCap)}

\* A key table with its three regions ([u8; N], length, coordinates), N = 3:
\* region cells hold the marker bytes 1, 2, 3 in the base matrix; pools are
\* padded with the default byte 0.
Layouts ==
    { [matrix |-> << 1, 2, 1, 3, 3 >>,
       region1 |-> [array |-> << 97, 98, 0 >>, length |-> 2,
                    coordinates |-> << 1, 3 >>],
       region2 |-> [array |-> << 99, 0, 0 >>, length |-> 1,
                    coordinates |-> << 2 >>],
       region3 |-> [array |-> << 100, 101, 0 >>, length |-> 2,
                    coordinates |-> << 4, 5 >>]] }

\* `let length1 = length1.min(N)` with N the length of the array
region_length(region) == Min2(region.length, Len(region.array))

total1 == factorial(region_length(input.region1))
total2 == factorial(region_length(input.region2))
total3 == factorial(region_length(input.region3))

\* total1.saturating_mul(total2).saturating_mul(total3)
total_permutations == Min2(total1 * total2 * total3, U64_MAX)

max_permutations == unwrap_or(input.max_permutations_opt, U64_MAX)

permutations_truncated == max_permutations < total_permutations

\* permute_and_substitute: `max_records_opt.map(|max_records| max_records as u64 + 1)`
max_records_opt == IF IsSome(input.max_records_opt)
                   THEN Some(Unwrap(input.max_records_opt) + 1) ELSE None

\* `for (i, &(r, c)) in coordinates.iter().enumerate() { matrix[r][c] = p[i]; }`
RECURSIVE write_region(_, _, _, _)
write_region(matrix, coordinates, p, i) ==
    IF i > Len(coordinates) THEN matrix
    ELSE write_region([matrix EXCEPT ![coordinates[i]] = p[i]], coordinates, p, i + 1)

\* `let coordinates1 = &coordinates1[..length1]`
region_coordinates(region) == SubSeq(region.coordinates, 1, region_length(region))

\* the substitution blocks without the block of the third region
substitute_two_regions(matrix, p1, p2, p3) ==
    LET m1 == IF region_length(input.region1) > 0
              THEN write_region(matrix, region_coordinates(input.region1), p1, 1)
              ELSE matrix
    IN IF region_length(input.region2) > 0
       THEN write_region(m1, region_coordinates(input.region2), p2, 1)
       ELSE m1

\* the three `if length > 0 { for ... }` blocks of both variants
substitute(matrix, p1, p2, p3) ==
    LET m1 == IF region_length(input.region1) > 0
              THEN write_region(matrix, region_coordinates(input.region1), p1, 1)
              ELSE matrix
        m2 == IF region_length(input.region2) > 0
              THEN write_region(m1, region_coordinates(input.region2), p2, 1)
              ELSE m1
    IN IF region_length(input.region3) > 0
       THEN write_region(m2, region_coordinates(input.region3), p3, 1)
       ELSE m2

\* the driver's closure over the result of either variant
driver_result(n_permutations, records) ==
    LET matrices == [k \in 1..Len(records) |-> records[k].matrix]
        records_truncated == IsSome(max_records_opt)
                             /\ Len(matrices) >= Unwrap(max_records_opt)
                             /\ Len(matrices) > 0
    IN [total_permutations |-> n_permutations,
        permutations_truncated |-> permutations_truncated,
        records |-> IF records_truncated
                    THEN SubSeq(matrices, 1, Len(matrices) - 1) ELSE matrices,
        records_truncated |-> records_truncated]

(***************************************************************************)
(* The scoring closure.  scoring_fn is any function of the matrix; the     *)
(* model fixes its value on a matrix the first time that matrix is scored. *)
(***************************************************************************)
\* the scores scoring_fn may return for a matrix
score_choices(matrix) ==
    IF matrix \in DOMAIN scoring_fn THEN {scoring_fn[matrix]} ELSE Scores

\* scoring_fn once it has returned score for matrix
scored(matrix, score) ==
    IF matrix \in DOMAIN scoring_fn THEN scoring_fn ELSE scoring_fn @@ (matrix :> score)

(***************************************************************************)
(* permute_and_substitute_sequential                                       *)
(***************************************************************************)
\* the arrays the three nested generators hand to their callbacks, in order
generated1 == generate_permutations_to_limit(input.region1.array, input.region1.length)
generated2 == generate_permutations_to_limit(input.region2.array, input.region2.length)
generated3 == generate_permutations_to_limit(input.region3.array, input.region3.length)

\* the frame on entry to the outermost generator
seq_entry ==
    [pc |-> "run", n_permutations |-> 0, matrix |-> input.matrix,
     g1 |-> 1, g2 |-> 1, g3 |-> 1,
     rs |-> identity(input.goal, input.tolerance),
     result |-> None]

idle == [pc |-> "idle"]

search_idle ==
    /\ input = idle
    /\ scoring_fn = << >>
    /\ seq = idle
    /\ par = idle

\* every entry point but the active one has not been called
idle_outside(active) ==
    /\ IF active = "search" THEN TRUE ELSE search_idle
    /\ IF active = "decode" THEN TRUE ELSE dec = idle
    /\ IF active = "admission" THEN TRUE ELSE adm = idle
    /\ IF active = "scoring" THEN TRUE ELSE sco = idle
    /\ IF active = "expression" THEN TRUE ELSE expr = idle
    /\ IF active = "parser" THEN TRUE ELSE prs = idle
    /\ IF active = "records" THEN TRUE ELSE rcd = idle
    /\ IF active = "layout" THEN TRUE ELSE lay = idle
    /\ IF active = "counter" THEN TRUE ELSE cnt = idle
    /\ IF active = "throttle" THEN TRUE ELSE thr = idle
    /\ IF active = "reduction" THEN TRUE ELSE red = idle

\* One call of the innermost callback, with the answers `n_permutations <
\* max_permutations` of the three closures and the generators' next move.
SeqStep ==
    /\ seq.pc = "run"
    /\ LET matrix == substitute(seq.matrix, generated1[seq.g1], generated2[seq.g2],
                                generated3[seq.g3])
           n == seq.n_permutations + 1
           go_on == n < max_permutations
           more3 == seq.g3 < Len(generated3)
           more2 == seq.g2 < Len(generated2)
           more1 == seq.g1 < Len(generated1)
       IN \E score \in score_choices(matrix) :
            /\ scoring_fn' = scored(matrix, score)
            /\ seq' = [seq EXCEPT
                  !.matrix = matrix,
                  !.rs = consider_record(matrix, score, seq.n_permutations, input.goal,
                                         input.tolerance, max_records_opt, seq.rs),
                  !.n_permutations = n,
                  !.g3 = IF go_on /\ more3 THEN seq.g3 + 1 ELSE 1,
                  !.g2 = IF go_on /\ ~more3 /\ more2 THEN seq.g2 + 1
                         ELSE IF go_on /\ more3 THEN seq.g2 ELSE 1,
                  !.g1 = IF go_on /\ ~more3 /\ ~more2 /\ more1 THEN seq.g1 + 1
                         ELSE IF go_on /\ (more3 \/ more2) THEN seq.g1 ELSE 1,
                  !.pc = IF go_on /\ (more3 \/ more2 \/ more1) THEN "run" ELSE "done"]
    /\ UNCHANGED << input, par, outside_search >>

\* The generators have returned: the records are collected and the driver
\* takes the overflow entry off.
SeqReturn ==
    /\ seq.pc = "done"
    /\ seq' = [seq EXCEPT !.pc = "returned",
                          !.result = Some(driver_result(seq.n_permutations, seq.rs.records))]
    /\ UNCHANGED << input, scoring_fn, par, outside_search >>

(***************************************************************************)
(* permute_and_substitute_parallel                                         *)
(*                                                                         *)
(* rayon splits the range 0 .. min(N, P_max) into contiguous chunks; each  *)
(* chunk is folded from a fresh accumulator, in index order, and mapped;   *)
(* adjacent results are reduced in any grouping, the identity of reduce    *)
(* being merged in anywhere.  par.segs lists, in index order, the chunks   *)
(* and partial results that make up the range at the moment.               *)
(***************************************************************************)
chunk(lo, hi) ==
    [lo |-> lo, hi |-> hi, cur |-> lo, local_n_permutations |-> 0,
     rs |-> identity(input.goal, input.tolerance)]

par_entry ==
    [pc |-> "run", n_permutations |-> 0,
     segs |-> << chunk(0, Min2(total_permutations, max_permutations)) >>,
     result |-> None]

\* the decomposition dividing by total2 where the source divides by total3
decompose_by_total2(index) ==
    << index \div (total2 * total3), (index \div total2) % total2, index % total3 >>

\* `let index1 = index / (total2 * total3); let index2 = (index / total3) %
\* total2; let index3 = index % total3;`
decompose(index) ==
    << index \div (total2 * total3), (index \div total3) % total2, index % total3 >>

\* the matrix the fold closure builds for index
materialise(index) ==
    LET indexes == decompose(index)
        index1 == indexes[1]
        index2 == indexes[2]
        index3 == indexes[3]
        in1 == SubSeq(input.region1.array, 1, region_length(input.region1))
        in2 == SubSeq(input.region2.array, 1, region_length(input.region2))
        in3 == SubSeq(input.region3.array, 1, region_length(input.region3))
    IN substitute(input.matrix,
                  index_to_permutation_in_place(index1, in1),
                  index_to_permutation_in_place(index2, in2),
                  index_to_permutation_in_place(index3, in3))

Replace(s, k, by) == SubSeq(s, 1, k - 1) \o by \o SubSeq(s, k + 1, Len(s))

ParCall ==
    /\ seq.pc = "returned"
    /\ par.pc = "idle"
    /\ par' = par_entry
    /\ UNCHANGED << input, scoring_fn, seq, outside_search >>

\* rayon splits a chunk no worker has begun to fold
ParSplit ==
    /\ par.pc = "run"
    /\ \E k \in 1..Len(par.segs) :
         LET c == par.segs[k]
         IN /\ c.cur = c.lo
            /\ \E mid \in (c.lo + 1)..(c.hi - 1) :
                 par' = [par EXCEPT
                    !.segs = Replace(par.segs, k, << chunk(c.lo, mid), chunk(mid, c.hi) >>)]
    /\ UNCHANGED << input, scoring_fn, seq, outside_search >>

\* The fold closure on the next index of chunk k; after the chunk's last index
\* the map closure flushes the remainder into the shared counter.
fold_chunk(k) ==
    LET c == par.segs[k]
        matrix == materialise(c.cur)
        local == c.local_n_permutations + 1
        batch == IF local % BATCH = 0 THEN BATCH ELSE 0
        last == c.cur + 1 = c.hi
        remaining == IF last /\ local % BATCH # 0 THEN local % BATCH ELSE 0
    IN /\ c.cur < c.hi
       /\ \E score \in score_choices(matrix) :
            /\ scoring_fn' = scored(matrix, score)
            /\ par' = [par EXCEPT
                  !.n_permutations = par.n_permutations + batch + remaining,
                  !.segs[k] = [c EXCEPT
                      !.cur = c.cur + 1,
                      !.local_n_permutations = IF last THEN 0 ELSE local,
                      !.rs = consider_record(matrix, score, c.cur, input.goal,
                                             input.tolerance, max_records_opt, c.rs)]]

\* Workers share no record set, so the order in which different chunks advance
\* changes no chunk's record set: the search advances the first unfinished one.
ParFold ==
    /\ par.pc = "run"
    /\ \E k \in 1..Len(par.segs) :
         /\ \A j \in 1..(k - 1) : par.segs[j].cur = par.segs[j].hi
         /\ fold_chunk(k)
    /\ UNCHANGED << input, seq, outside_search >>

\* the reduce closure on two adjacent partial results
ParReduce ==
    /\ par.pc = "run"
    /\ \E k \in 1..(Len(par.segs) - 1) :
         LET a == par.segs[k]
             b == par.segs[k + 1]
         IN /\ a.cur = a.hi
            /\ b.cur = b.hi
            /\ par' = [par EXCEPT
                  !.segs = SubSeq(par.segs, 1, k - 1)
                      \o << [lo |-> a.lo, hi |-> b.hi, cur |-> b.hi,
                             local_n_permutations |-> 0,
                             rs |-> reduce_op(a.rs, b.rs, input.goal, max_records_opt)] >>
                      \o SubSeq(par.segs, k + 2, Len(par.segs))]
    /\ UNCHANGED << input, scoring_fn, seq, outside_search >>

\* the reduce closure on a partial result and the identity of reduce, which
\* rayon merges in at the start of every reducer
ParReduceIdentity ==
    /\ par.pc = "run"
    /\ \E k \in 1..Len(par.segs) :
         LET a == par.segs[k]
             e == identity(input.goal, input.tolerance)
         IN /\ a.cur = a.hi
            /\ \E rs \in {reduce_op(e, a.rs, input.goal, max_records_opt),
                          reduce_op(a.rs, e, input.goal, max_records_opt)} :
                 par' = [par EXCEPT !.segs[k].rs = rs]
    /\ UNCHANGED << input, scoring_fn, seq, outside_search >>

\* The reduction is complete: the final progress call, the collection of the
\* records, and the driver taking the overflow entry off.
ParReturn ==
    /\ par.pc = "run"
    /\ Len(par.segs) = 1
    /\ par.segs[1].cur = par.segs[1].hi
    /\ par' = [par EXCEPT
          !.pc = "returned",
          !.result = Some(driver_result(par.n_permutations, par.segs[1].rs.records))]
    /\ UNCHANGED << input, scoring_fn, seq, outside_search >>

(***************************************************************************)
(* A search: permute_and_substitute is called with parallelize = false and *)
(* then, on the same arguments, with parallelize = true.                   *)
(***************************************************************************)
Inputs ==
    { [goal |-> g, tolerance |-> t, max_permutations_opt |-> p, max_records_opt |-> k,
       matrix |-> l.matrix, region1 |-> l.region1, region2 |-> l.region2,
       region3 |-> l.region3] :
      g \in Goals, t \in Tolerances, p \in PermutationCaps, k \in RecordCaps,
      l \in Layouts }

Init ==
    /\ input \in Inputs
    /\ scoring_fn = << >>
    /\ seq = seq_entry
    /\ par = idle
    /\ idle_outside("search")

Next ==
    \/ SeqStep
    \/ SeqReturn
    \/ ParCall
    \/ ParSplit
    \/ ParFold
    \/ ParReduce
    \/ ParReduceIdentity
    \/ ParReturn

Spec == Init /\ [][Next]_vars

(***************************************************************************)
(* Notions the properties of a search are stated in                        *)
(***************************************************************************)
\* a is at least as good as b under the goal
goal_better_or_equal(goal, a, b) == IF goal = "Max" THEN a >= b ELSE a <= b

goal_better(goal, a, b) == IF goal = "Max" THEN a > b ELSE a < b

\* every record set some worker or the sequential loop holds at the moment
record_sets ==
    (IF seq.pc \in {"run", "done", "returned"} THEN {seq.rs} ELSE {})
    \cup (IF par.pc \in {"run", "returned"}
          THEN {par.segs[k].rs : k \in 1..Len(par.segs)} ELSE {})

\* the results permute_and_substitute has returned so far
results ==
    (IF seq.pc = "returned" THEN {Unwrap(seq.result)} ELSE {})
    \cup (IF par.pc = "returned" THEN {Unwrap(par.result)} ELSE {})

\* min(N, P_max)
expected_permutations == Min2(total_permutations, max_permutations)

\* the enumeration index of a candidate matrix (the pools hold distinct bytes)
index_of(matrix) ==
    CHOOSE i \in 0..(total_permutations - 1) : materialise(i) = matrix

\* the best score among the first n candidates, starting from the initial score
RECURSIVE best_of(_)
best_of(n) ==
    IF n = 0 THEN initial_score(input.goal)
    ELSE LET s == scoring_fn[materialise(n - 1)]
             b == best_of(n - 1)
         IN IF goal_better(input.goal, s, b) THEN s ELSE b

\* the record set one worker folding 0 .. n - 1 alone ends with
RECURSIVE fold_alone(_)
fold_alone(n) ==
    IF n = 0 THEN identity(input.goal, input.tolerance)
    ELSE consider_record(materialise(n - 1), scoring_fn[materialise(n - 1)], n - 1,
                         input.goal, input.tolerance, max_records_opt, fold_alone(n - 1))

(***************************************************************************)
(* Properties of a search                                                  *)
(***************************************************************************)
\* C1: on identical inputs the parallel variant returns what the sequential
\* variant returns: the same matrices in the same order, the same count of
\* completed permutations and the same truncation flags.
C1_ParallelEqualsSequential ==
    (seq.pc = "returned" /\ par.pc = "returned")
        => Unwrap(par.result) = Unwrap(seq.result)

\* C2: whatever the split into chunks and the grouping of the reduction, the
\* parallel variant returns the record list that one worker folding the whole
\* range alone returns.
C2_SchedulingIndependent ==
    par.pc = "returned"
        => Unwrap(par.result).records
             = driver_result(expected_permutations,
                             fold_alone(expected_permutations).records).records

\* C3: a returned list runs from the best score to the worst under the goal,
\* equal scores in ascending enumeration index.
C3_OrderedBestFirst ==
    \A r \in results : \A k \in 1..(Len(r.records) - 1) :
        LET a == r.records[k]
            b == r.records[k + 1]
        IN \/ goal_better(input.goal, scoring_fn[a], scoring_fn[b])
           \/ scoring_fn[a] = scoring_fn[b] /\ index_of(a) < index_of(b)

\* C4: every entry a record set retains is at least as good as the threshold of
\* that record set's best score, after every consider_record and every merge;
\* every returned matrix is at least as good as the threshold of the best score
\* of the whole search.
C4_ThresholdInvariant ==
    /\ \A rs \in record_sets : \A k \in 1..Len(rs.records) :
         goal_better_or_equal(input.goal, rs.records[k].score,
             calculate_threshold(input.goal, rs.best_score, input.tolerance))
    /\ (seq.pc = "returned" /\ par.pc = "idle") =>
         \A k \in 1..Len(Unwrap(seq.result).records) :
            goal_better_or_equal(input.goal, scoring_fn[Unwrap(seq.result).records[k]],
                calculate_threshold(input.goal, best_of(seq.n_permutations),
                                    input.tolerance))
    /\ par.pc = "returned" =>
         \A k \in 1..Len(Unwrap(par.result).records) :
            goal_better_or_equal(input.goal, scoring_fn[Unwrap(par.result).records[k]],
                calculate_threshold(input.goal, best_of(expected_permutations),
                                    input.tolerance))

C4_Witness ==
    /\ seq.pc = "returned"
    /\ input.goal = "Max"
    /\ input.tolerance = << 3, 4 >>
    /\ input.max_records_opt = None
    /\ seq.n_permutations = 4
    /\ seq.rs.best_score = 3
    /\ Len(Unwrap(seq.result).records) = 2
    /\ \E m \in DOMAIN scoring_fn : scoring_fn[m] = 2

\* C5: under a record cap K_max no record set ever holds more than K_max + 1
\* entries, and a returned list holds at most K_max.
C5_CapInvariant ==
    IsSome(input.max_records_opt) =>
        /\ \A rs \in record_sets : Len(rs.records) <= Unwrap(input.max_records_opt) + 1
        /\ \A r \in results : Len(r.records) <= Unwrap(input.max_records_opt)

C5_Witness ==
    /\ input.max_records_opt = Some(1)
    /\ input.max_permutations_opt = None
    /\ par.pc = "returned"
    /\ Len(seq.rs.records) = 2
    /\ Unwrap(seq.result).records_truncated
    /\ Len(Unwrap(seq.result).records) = 1
    /\ Len(Unwrap(par.result).records) = 1

\* C6: both variants score min(N, P_max) candidates and report that count,
\* report permutations_truncated exactly when P_max < N, and the sequential
\* variant scores no candidate once n_permutations >= P_max.
C6_PermutationCount ==
    /\ \A r \in results :
         /\ r.total_permutations = expected_permutations
         /\ r.permutations_truncated
              = (IsSome(input.max_permutations_opt)
                 /\ Unwrap(input.max_permutations_opt) < total1 * total2 * total3)
    /\ seq.pc \in {"run", "done", "returned"} => seq.n_permutations <= expected_permutations
    /\ par.pc = "returned" => Cardinality(DOMAIN scoring_fn) >= expected_permutations

\* C9: the reduce closure is associative on the partial results of adjacent
\* chunks.
C9_MergeAssociative ==
    par.pc = "run" =>
        \A k \in 1..(Len(par.segs) - 2) :
            LET a == par.segs[k]
                b == par.segs[k + 1]
                c == par.segs[k + 2]
            IN (a.cur = a.hi /\ b.cur = b.hi /\ c.cur = c.hi) =>
                 reduce_op(reduce_op(a.rs, b.rs, input.goal, max_records_opt), c.rs,
                           input.goal, max_records_opt)
                 = reduce_op(a.rs, reduce_op(b.rs, c.rs, input.goal, max_records_opt),
                             input.goal, max_records_opt)

(***************************************************************************)
(* Decoding: a caller runs index_to_permutation_in_place, and the          *)
(* allocating index_to_permutation beside it, on every index 0 .. n! - 1   *)
(* of a pool, in turn.                                                     *)
(***************************************************************************)
Bytes == 97..(96 + MaxPoolLen)

Range(s) == {s[k] : k \in 1..Len(s)}

\* the sequences of length n that hold n distinct bytes
distinct_seqs(n) ==
    {s \in [1..n -> Bytes] : \A j, k \in 1..n : s[j] = s[k] => j = k}

Pools == UNION {distinct_seqs(n) : n \in 0..MaxPoolLen}

InitDecode ==
    /\ idle_outside("decode")
    /\ \E pool \in Pools :
         dec = [pc |-> "call", in |-> pool, index |-> 0, call |-> idle,
                decoded |-> << >>, allocated |-> << >>]

\* the caller's frame once the call for dec.index has left output behind
dec_returned(output) ==
    LET more == dec.index + 1 < factorial(Len(dec.in))
    IN [dec EXCEPT !.pc = IF more THEN "call" ELSE "done",
                   !.index = IF more THEN dec.index + 1 ELSE dec.index,
                   !.call = idle,
                   !.decoded = Append(dec.decoded, output),
                   !.allocated = Append(dec.allocated,
                                        index_to_permutation(dec.index, dec.in))]

\* entry of index_to_permutation_in_place: an empty input returns at once and
\* leaves output as it is
DecCall ==
    /\ dec.pc = "call"
    /\ dec' = IF Len(dec.in) = 0 THEN dec_returned(<< >>)
              ELSE [dec EXCEPT !.pc = "loop",
                               !.call = in_place_entry(dec.index, dec.in)]
    /\ UNCHANGED outside_decode

\* one iteration of `for i in 0..input_length`
DecStep ==
    /\ dec.pc = "loop"
    /\ dec.call.i < Len(dec.in)
    /\ dec' = [dec EXCEPT !.call = in_place_step(dec.call)]
    /\ UNCHANGED outside_decode

\* the loop is over and the call returns
DecReturn ==
    /\ dec.pc = "loop"
    /\ dec.call.i >= Len(dec.in)
    /\ dec' = dec_returned(dec.call.output)
    /\ UNCHANGED outside_decode

NextDecode ==
    \/ DecCall
    \/ DecStep
    \/ DecReturn

SpecDecode == InitDecode /\ [][NextDecode]_vars

\* all arrangements of a pool of distinct elements
arrangements(pool) ==
    {s \in [1..Len(pool) -> Range(pool)] : \A j, k \in 1..Len(pool) : s[j] = s[k] => j = k}

\* the position an element has in the pool
position_in(pool, x) == CHOOSE k \in 1..Len(pool) : pool[k] = x

\* s comes before t in the lexicographic order of pool positions
lex_before(pool, s, t) ==
    \E k \in 1..Len(s) :
        /\ \A j \in 1..(k - 1) : s[j] = t[j]
        /\ position_in(pool, s[k]) < position_in(pool, t[k])

\* C7: decoding the indices 0 .. n! - 1 of a pool yields every permutation of
\* the pool, each exactly once.
C7_DecodeBijective ==
    dec.pc = "done" =>
        /\ Len(dec.decoded) = factorial(Len(dec.in))
        /\ Range(dec.decoded) = arrangements(dec.in)
        /\ \A j, k \in 1..Len(dec.decoded) : dec.decoded[j] = dec.decoded[k] => j = k

C7_Witness ==
    /\ dec.pc = "done"
    /\ Len(dec.in) = 3
    /\ Len(dec.decoded) = 6

\* C8: at step k the decoder divides by f = (n - 1 - k)!, index i decodes to
\* the i-th arrangement in lexicographic order of pool positions (index 0, 1
\* and 5 of [A, B, C] to [A, B, C], [A, C, B] and [C, B, A]), and the
\* allocating index_to_permutation returns what the in-place version returns.
C8_DecodeLexicographic ==
    /\ dec.pc = "loop" /\ dec.call.i < Len(dec.in)
         => dec.call.f = factorial(Len(dec.in) - 1 - dec.call.i)
    /\ dec.pc \in {"call", "loop", "done"} =>
         /\ \A k \in 1..(Len(dec.decoded) - 1) :
              lex_before(dec.in, dec.decoded[k], dec.decoded[k + 1])
         /\ dec.allocated = dec.decoded
         /\ (dec.in = << 97, 98, 99 >> /\ dec.pc = "done") =>
              /\ dec.decoded[1] = << 97, 98, 99 >>
              /\ dec.decoded[2] = << 97, 99, 98 >>
              /\ dec.decoded[6] = << 99, 98, 97 >>

C8_Witness ==
    /\ dec.pc = "done"
    /\ dec.in = << 97, 98, 99 >>
    /\ dec.allocated[6] = << 99, 98, 97 >>

(***************************************************************************)
(* Admission: a caller feeds scores, one after the other, to               *)
(* consider_record on a record set without a cap.                          *)
(***************************************************************************)
\* the number of scores a caller feeds to consider_record
MaxConsidered == 3

\* tolerances 0.0, 0.5, 0.9 and 1.0
AdmissionTolerances == {<< 0, 1 >>, << 1, 2 >>, << 9, 10 >>, << 1, 1 >>}

AdmissionScores == {0, 50, 100, 112, 113}

InitAdmission ==
    /\ idle_outside("admission")
    /\ \E goal \in Goals, tolerance \in AdmissionTolerances :
         adm = [pc |-> "run", goal |-> goal, tolerance |-> tolerance,
                considered |-> << >>, rs |-> identity(goal, tolerance)]

\* consider_record(matrix, score, index, ..): the matrix stands for itself
AdmConsider ==
    /\ adm.pc = "run"
    /\ Len(adm.considered) < MaxConsidered
    /\ \E score \in AdmissionScores :
         adm' = [adm EXCEPT
                   !.considered = Append(adm.considered, score),
                   !.rs = consider_record(<< score >>, score, Len(adm.considered),
                                          adm.goal, adm.tolerance, None, adm.rs)]
    /\ UNCHANGED outside_admission

NextAdmission == AdmConsider

SpecAdmission == InitAdmission /\ [][NextAdmission]_vars

\* the best of the scores considered so far
best_considered ==
    CHOOSE b \in Range(adm.considered) :
        \A s \in Range(adm.considered) : goal_better_or_equal(adm.goal, b, s)

\* the indices of the calls whose score meets threshold t
meeting(t) ==
    {k \in 1..Len(adm.considered) : goal_better_or_equal(adm.goal, adm.considered[k], t)}

\* the indices of the calls whose entry the record set retains
retained == {adm.rs.records[k].index + 1 : k \in 1..Len(adm.rs.records)}

\* C10: the threshold is best at tolerance 1.0, where only best scores are
\* retained; 0 for Max and the maximum for Min at tolerance 0.0, where every
\* score is retained; floor(best * tolerance) for Max and ceil(best /
\* tolerance) for Min otherwise.  Goal Min, tolerance 0.9, best 100: the
\* threshold is 112, 112 is retained and 113 is dropped.
C10_Threshold ==
    (adm.pc = "run" /\ adm.considered # << >>) =>
        LET best == best_considered
            num == adm.tolerance[1]
            den == adm.tolerance[2]
            t == calculate_threshold(adm.goal, best, adm.tolerance)
        IN /\ adm.rs.best_score = best
           /\ adm.rs.threshold_score = t
           /\ retained = meeting(t)
           /\ num = den =>
                /\ t = best
                /\ \A k \in 1..Len(adm.rs.records) : adm.rs.records[k].score = best
           /\ num = 0 =>
                /\ t = IF adm.goal = "Max" THEN 0 ELSE U64_MAX
                /\ Len(adm.rs.records) = Len(adm.considered)
           /\ (0 < num /\ num < den /\ adm.goal = "Max") =>
                (t * den <= best * num /\ best * num < (t + 1) * den)
           /\ (0 < num /\ num < den /\ adm.goal = "Min") =>
                ((t - 1) * num < best * den /\ best * den <= t * num)
           /\ (adm.goal = "Min" /\ adm.tolerance = << 9, 10 >> /\ best = 100) =>
                /\ t = 112
                /\ \A k \in 1..Len(adm.considered) :
                     /\ adm.considered[k] = 112 => k \in retained
                     /\ adm.considered[k] = 113 => k \notin retained

C10_Witness ==
    /\ adm.pc = "run"
    /\ adm.goal = "Min"
    /\ adm.tolerance = << 9, 10 >>
    /\ adm.considered = << 113, 112, 100 >>
    /\ adm.rs.threshold_score = 112
    /\ Len(adm.rs.records) = 2

(***************************************************************************)
(* src/src/scores.rs and the keys of src/src/ngrams.rs                     *)
(*                                                                         *)
(* A key matrix is a sequence of rows here, a fingering (r, c, ..) the     *)
(* record [r, c] with the source's 0-based row and column, and an effort   *)
(* the pair << num, den >>.  An n-gram table is a function on the keys it  *)
(* holds counts for; every other entry of the array is 0.                  *)
(***************************************************************************)
\* the slices scored hold up to MaxFingerings fingerings
MaxFingerings == 2

\* x << n
shl(x, n) == x * (2 ^ n)

\* a | b
RECURSIVE bitor(_, _)
bitor(a, b) ==
    IF a = 0 THEN b
    ELSE IF b = 0 THEN a
    ELSE (IF a % 2 = 1 \/ b % 2 = 1 THEN 1 ELSE 0) + 2 * bitor(a \div 2, b \div 2)

\* UnigramKey::from(u8), BigramKey::from((u8, u8)), TrigramKey::from((u8, u8, u8))
UnigramKey_from(b) == b
BigramKey_from(b1, b2) == bitor(shl(b1, 8), b2)
TrigramKey_from(b1, b2, b3) == bitor(bitor(shl(b1, 16), shl(b2, 8)), b3)

\* key_table_matrix[r][c]
cell(key_table_matrix, f) == key_table_matrix[f.r + 1][f.c + 1]

\* UnigramKey::from_fingering, BigramKey::from_fingering, TrigramKey::from_fingering
UnigramKey_from_fingering(uf, key_table_matrix) ==
    UnigramKey_from(cell(key_table_matrix, uf.f1))
BigramKey_from_fingering(bf, key_table_matrix) ==
    BigramKey_from(cell(key_table_matrix, bf.f1), cell(key_table_matrix, bf.f2))
TrigramKey_from_fingering(tf, key_table_matrix) ==
    TrigramKey_from(cell(key_table_matrix, tf.f1), cell(key_table_matrix, tf.f2),
                    cell(key_table_matrix, tf.f3))

\* table[key.as_usize()]
table_get(table, key) == IF key \in DOMAIN table THEN table[key] ELSE 0

\* the effort weight with the effort truncated before the multiplication
effort_weighted_truncating_effort(value, effort) ==
    as_u64(value * (effort[1] \div effort[2]))

\* (value as f64 * effort) as u64
effort_weighted(value, effort) == as_u64(floor_mul(value, effort))

\* score_uf, score_bf, score_tf
score_uf(uf, key_table_matrix, unigram_table) ==
    LET key == UnigramKey_from_fingering(uf, key_table_matrix)
        value == table_get(unigram_table, key)
    IN [key |-> key, value |-> value, value_ew |-> effort_weighted(value, uf.effort)]

score_bf(bf, key_table_matrix, bigram_table) ==
    LET key == BigramKey_from_fingering(bf, key_table_matrix)
        value == table_get(bigram_table, key)
    IN [key |-> key, value |-> value, value_ew |-> effort_weighted(value, bf.effort)]

score_tf(tf, key_table_matrix, trigram_table) ==
    LET key == TrigramKey_from_fingering(tf, key_table_matrix)
        value == table_get(trigram_table, key)
    IN [key |-> key, value |-> value, value_ew |-> effort_weighted(value, tf.effort)]

\* score_nf for the arity of the slice
score_of(arity, nf, key_table_matrix, table) ==
    CASE arity = 1 -> score_uf(nf, key_table_matrix, table)
      [] arity = 2 -> score_bf(nf, key_table_matrix, table)
      [] arity = 3 -> score_tf(nf, key_table_matrix, table)

\* score_{u,b,t}fs_with_details: map(score) and the fold that keeps the scores
RECURSIVE score_with_details(_, _, _, _, _)
score_with_details(arity, slice, key_table_matrix, table, acc) ==
    IF slice = << >> THEN acc
    ELSE LET score == score_of(arity, Head(slice), key_table_matrix, table)
         IN score_with_details(arity, Tail(slice), key_table_matrix, table,
                [details |-> Append(acc.details, score),
                 a |-> acc.a + score.value,
                 a_ew |-> acc.a_ew + score.value_ew])

\* score_{u,b,t}fs_without_details_safe: map(score) and the fold of the sums
RECURSIVE score_without_details_safe(_, _, _, _, _)
score_without_details_safe(arity, slice, key_table_matrix, table, acc) ==
    IF slice = << >> THEN acc
    ELSE LET score == score_of(arity, Head(slice), key_table_matrix, table)
         IN score_without_details_safe(arity, Tail(slice), key_table_matrix, table,
                [a |-> acc.a + score.value, a_ew |-> acc.a_ew + score.value_ew])

\* score_{u,b,t}fs_without_details_unsafe: the loop `for i in 0..slice.len()`,
\* every get_unchecked within bounds
RECURSIVE score_without_details_unsafe(_, _, _, _, _, _)
score_without_details_unsafe(arity, slice, key_table_matrix, table, i, acc) ==
    IF i >= Len(slice) THEN acc
    ELSE LET nf == slice[i + 1]
             key == CASE arity = 1 -> UnigramKey_from(cell(key_table_matrix, nf.f1))
                      [] arity = 2 -> BigramKey_from(cell(key_table_matrix, nf.f1),
                                                     cell(key_table_matrix, nf.f2))
                      [] arity = 3 -> TrigramKey_from(cell(key_table_matrix, nf.f1),
                                                      cell(key_table_matrix, nf.f2),
                                                      cell(key_table_matrix, nf.f3))
             value == table_get(table, key)
             value_ew == effort_weighted(value, nf.effort)
         IN score_without_details_unsafe(arity, slice, key_table_matrix, table, i + 1,
                [a |-> acc.a + value, a_ew |-> acc.a_ew + value_ew])

\* score_ufs, score_bfs, score_tfs: (Option<Vec<Score>>, sum, sum_ew)
score_nfs(arity, slice, key_table_matrix, table, mode) ==
    CASE mode = "Detailed" ->
           LET r == score_with_details(arity, slice, key_table_matrix, table,
                                       [details |-> << >>, a |-> 0, a_ew |-> 0])
           IN [details |-> Some(r.details), sum |-> r.a, sum_ew |-> r.a_ew]
      [] mode = "SummarySafe" ->
           LET r == score_without_details_safe(arity, slice, key_table_matrix, table,
                                               [a |-> 0, a_ew |-> 0])
           IN [details |-> None, sum |-> r.a, sum_ew |-> r.a_ew]
      [] mode = "SummaryUnsafe" ->
           LET r == score_without_details_unsafe(arity, slice, key_table_matrix, table, 0,
                                                 [a |-> 0, a_ew |-> 0])
           IN [details |-> None, sum |-> r.a, sum_ew |-> r.a_ew]

(***************************************************************************)
(* Scoring: one fingering slice is scored against one key matrix by each   *)
(* of the three variants of score_ufs / score_bfs / score_tfs.             *)
(***************************************************************************)
\* efforts 1.5 and 2.0
Efforts == {<< 3, 2 >>, << 2, 1 >>}

\* the cells of a key matrix of one row and two columns
Cells == {[r |-> 0, c |-> c] : c \in 0..1}

KeyMatrices == {<< << b1, b2 >> >> : b1, b2 \in {97, 98}}

\* UnigramFingering, BigramFingering, TrigramFingering
Fingerings(arity) ==
    CASE arity = 1 -> [f1 : Cells, effort : Efforts]
      [] arity = 2 -> [f1 : Cells, f2 : Cells, effort : Efforts]
      [] arity = 3 -> [f1 : Cells, f2 : Cells, f3 : Cells, effort : Efforts]

\* unigram counts a: 10, b: 3; bigram counts aa: 1, ab: 5, ba: 7; trigram
\* counts aab: 4, aba: 2, baa: 9
NgramTable(arity) ==
    CASE arity = 1 -> (97 :> 10 @@ 98 :> 3)
      [] arity = 2 -> (24929 :> 1 @@ 24930 :> 5 @@ 25185 :> 7)
      [] arity = 3 -> (6381922 :> 4 @@ 6382177 :> 2 @@ 6447457 :> 9)

ScoreModes == {"Detailed", "SummarySafe", "SummaryUnsafe"}

InitScoring ==
    /\ idle_outside("scoring")
    /\ \E arity \in 1..3, key_table_matrix \in KeyMatrices, n \in 0..MaxFingerings :
         \E slice \in [1..n -> Fingerings(arity)] :
            sco = [pc |-> "run", arity |-> arity, key_table_matrix |-> key_table_matrix,
                   slice |-> slice, table |-> NgramTable(arity),
                   returned |-> [mode \in ScoreModes |-> None]]

\* what score_nfs returns to the caller for a mode
score_call(mode) ==
    [sco EXCEPT !.returned[mode] =
        Some(score_nfs(sco.arity, sco.slice, sco.key_table_matrix, sco.table, mode))]

ScoreDetailed ==
    /\ sco.pc = "run"
    /\ sco.returned["Detailed"] = None
    /\ sco' = score_call("Detailed")
    /\ UNCHANGED outside_scoring

ScoreSummarySafe ==
    /\ sco.pc = "run"
    /\ sco.returned["SummarySafe"] = None
    /\ sco' = score_call("SummarySafe")
    /\ UNCHANGED outside_scoring

ScoreSummaryUnsafe ==
    /\ sco.pc = "run"
    /\ sco.returned["SummaryUnsafe"] = None
    /\ sco' = score_call("SummaryUnsafe")
    /\ UNCHANGED outside_scoring

NextScoring ==
    \/ ScoreDetailed
    \/ ScoreSummarySafe
    \/ ScoreSummaryUnsafe

SpecScoring == InitScoring /\ [][NextScoring]_vars

\* the byte of the key matrix under the k-th position of a fingering
byte_at(nf, k) ==
    LET f == CASE k = 1 -> nf.f1 [] k = 2 -> nf.f2 [] k = 3 -> nf.f3
    IN sco.key_table_matrix[f.r + 1][f.c + 1]

\* b, b1 << 8 | b2, b1 << 16 | b2 << 8 | b3, as a number
packed_key(nf) ==
    CASE sco.arity = 1 -> byte_at(nf, 1)
      [] sco.arity = 2 -> byte_at(nf, 1) * 256 + byte_at(nf, 2)
      [] sco.arity = 3 -> byte_at(nf, 1) * 65536 + byte_at(nf, 2) * 256 + byte_at(nf, 3)

\* T[key(f)]
count_of(nf) ==
    IF packed_key(nf) \in DOMAIN sco.table THEN sco.table[packed_key(nf)] ELSE 0

\* floor(T[key(f)] * effort(f)): the integer v with v <= T * effort < v + 1
weighted_count_of(nf) ==
    LET product_num == count_of(nf) * nf.effort[1]
        den == nf.effort[2]
    IN CHOOSE v \in 0..product_num : v * den <= product_num /\ product_num < (v + 1) * den

RECURSIVE raw_sum(_)
raw_sum(n) == IF n = 0 THEN 0 ELSE raw_sum(n - 1) + count_of(sco.slice[n])

RECURSIVE effort_sum(_)
effort_sum(n) == IF n = 0 THEN 0 ELSE effort_sum(n - 1) + weighted_count_of(sco.slice[n])

\* C11: every scoring variant returns the raw sum of T[key(f)] and the effort
\* sum of floor(T[key(f)] * effort(f)) over the slice, truncating per fingering
\* after the multiplication, with key(f) the packed matrix bytes at f's
\* positions.  Unigram table {a: 10, b: 3}, one fingering at (0, 0) of effort
\* 2.0: the cell a gives (10, 20), the cell b gives (3, 6).
C11_ScoreSums ==
    sco.pc = "run" =>
        \A mode \in ScoreModes :
            IsSome(sco.returned[mode]) =>
                LET r == Unwrap(sco.returned[mode])
                IN /\ r.sum = raw_sum(Len(sco.slice))
                   /\ r.sum_ew = effort_sum(Len(sco.slice))
                   /\ IsSome(r.details) = (mode = "Detailed")
                   /\ IsSome(r.details) =>
                        /\ Len(Unwrap(r.details)) = Len(sco.slice)
                        /\ \A k \in 1..Len(sco.slice) :
                             Unwrap(r.details)[k]
                               = [key |-> packed_key(sco.slice[k]),
                                  value |-> count_of(sco.slice[k]),
                                  value_ew |-> weighted_count_of(sco.slice[k])]
                   /\ (sco.arity = 1
                       /\ sco.slice = << [f1 |-> [r |-> 0, c |-> 0], effort |-> << 2, 1 >>] >>) =>
                        /\ sco.key_table_matrix[1][1] = 97 => (r.sum = 10 /\ r.sum_ew = 20)
                        /\ sco.key_table_matrix[1][1] = 98 => (r.sum = 3 /\ r.sum_ew = 6)

C11_Witness ==
    /\ sco.pc = "run"
    /\ sco.arity = 2
    /\ Len(sco.slice) = 2
    /\ \A mode \in ScoreModes :
         /\ IsSome(sco.returned[mode])
         /\ Unwrap(sco.returned[mode]).sum = 12
         /\ Unwrap(sco.returned[mode]).sum_ew = 17

(***************************************************************************)
(* src/src/expressions.rs: values, reduce and evaluate                     *)
(*                                                                         *)
(* An f64 is the pair << n, d >>: the fraction n / d in lowest terms with  *)
(* d > 0 when it is finite, << 1, 0 >> and << -1, 0 >> for the infinities  *)
(* and << 0, 0 >> for NaN.  The literals of the model and the results they *)
(* lead to are exact in this form; 0.0 and -0.0 are not told apart.        *)
(***************************************************************************)
INF == << 1, 0 >>
NEG_INF == << -1, 0 >>
NAN == << 0, 0 >>

Abs(x) == IF x < 0 THEN -x ELSE x
Sign(x) == IF x < 0 THEN -1 ELSE IF x > 0 THEN 1 ELSE 0

RECURSIVE GCD(_, _)
GCD(a, b) == IF b = 0 THEN a ELSE GCD(b, a % b)

\* the finite f64 n / d, d # 0
fraction(n, d) ==
    LET g == GCD(Abs(n), Abs(d))
    IN << Sign(d) * (n \div g), Abs(d) \div g >>

is_finite(x) == x[2] # 0
is_nan(x) == x = NAN

\* -x
f64_neg(x) == << -x[1], x[2] >>

\* a + b
f64_add(a, b) ==
    IF is_nan(a) \/ is_nan(b) THEN NAN
    ELSE IF ~is_finite(a) /\ ~is_finite(b) THEN (IF a = b THEN a ELSE NAN)
    ELSE IF ~is_finite(a) THEN a
    ELSE IF ~is_finite(b) THEN b
    ELSE fraction(a[1] * b[2] + b[1] * a[2], a[2] * b[2])

\* a - b
f64_sub(a, b) == f64_add(a, f64_neg(b))

\* a * b
f64_mul(a, b) ==
    IF is_nan(a) \/ is_nan(b) THEN NAN
    ELSE IF ~is_finite(a) \/ ~is_finite(b)
    THEN (IF a[1] = 0 \/ b[1] = 0 THEN NAN ELSE << Sign(a[1]) * Sign(b[1]), 0 >>)
    ELSE fraction(a[1] * b[1], a[2] * b[2])

\* a / b
f64_div(a, b) ==
    IF is_nan(a) \/ is_nan(b) THEN NAN
    ELSE IF ~is_finite(a) /\ ~is_finite(b) THEN NAN
    ELSE IF ~is_finite(a) THEN << Sign(a[1]) * (IF b[1] < 0 THEN -1 ELSE 1), 0 >>
    ELSE IF ~is_finite(b) THEN << 0, 1 >>
    ELSE IF b[1] = 0 THEN (IF a[1] = 0 THEN NAN ELSE << Sign(a[1]), 0 >>)
    ELSE fraction(a[1] * b[2], a[2] * b[1])

\* a == b, a < b and the comparisons derived from them
f64_eq(a, b) == ~is_nan(a) /\ ~is_nan(b) /\ a = b
f64_lt(a, b) ==
    /\ ~is_nan(a)
    /\ ~is_nan(b)
    /\ a # b
    /\ IF a = NEG_INF \/ b = INF THEN TRUE
       ELSE IF a = INF \/ b = NEG_INF THEN FALSE
       ELSE a[1] * b[2] < b[1] * a[2]
f64_le(a, b) == f64_lt(a, b) \/ f64_eq(a, b)

\* enum Value
Value_Number(n) == [type |-> "Number", n |-> n]
Value_Boolean(b) == [type |-> "Boolean", b |-> b]

\* enum Expression
Name(s) == [type |-> "Name", s |-> s]
Number(n) == [type |-> "Number", n |-> n]
Boolean(b) == [type |-> "Boolean", b |-> b]
Unary(operator, expression) ==
    [type |-> "Unary", operator |-> operator, expression |-> expression]
Binary(left, operator, right) ==
    [type |-> "Binary", left |-> left, operator |-> operator, right |-> right]

\* enum EvalError
DivisionByZero == [kind |-> "DivisionByZero"]
TypeMismatch == [kind |-> "TypeMismatch"]
UndefinedVariable(name) == [kind |-> "UndefinedVariable", name |-> name]

\* Result<Value, EvalError>
Ok(value) == [ok |-> TRUE, value |-> value]
Err(error) == [ok |-> FALSE, error |-> error]

truthy(v) ==
    IF v.type = "Boolean" THEN v.b ELSE is_finite(v.n) /\ ~f64_eq(v.n, << 0, 1 >>)

\* HashMap::get on a symbol table, a function from names to values
table_lookup(name_to_value, s) ==
    IF s \in DOMAIN name_to_value
    THEN Ok(name_to_value[s])
    ELSE Err(UndefinedVariable(s))

\* evaluate, Unary arm: val is the operand's value
evaluate_unary(op, val) ==
    IF op = "Negate" /\ val.type = "Number" THEN Ok(Value_Number(f64_neg(val.n)))
    ELSE IF op = "Not" /\ val.type = "Boolean" THEN Ok(Value_Boolean(~val.b))
    ELSE IF op = "Not" /\ val.type = "Number" THEN Ok(Value_Boolean(~truthy(val)))
    ELSE Err(TypeMismatch)

\* evaluate, And arm: lv and rv are the results of evaluating left and
\* right; rv is looked at only where the code evaluates right.  The mutant
\* evaluates right before it tests left.
evaluate_and_eager(lv, rv) ==
    IF ~lv.ok THEN lv
    ELSE IF ~rv.ok THEN rv
    ELSE Ok(Value_Boolean(truthy(lv.value) /\ truthy(rv.value)))

evaluate_and(lv, rv) ==
    IF ~lv.ok THEN lv
    ELSE IF ~truthy(lv.value) THEN Ok(Value_Boolean(FALSE))
    ELSE IF ~rv.ok THEN rv
    ELSE Ok(Value_Boolean(truthy(lv.value) /\ truthy(rv.value)))

\* evaluate, Or arm
evaluate_or(lv, rv) ==
    IF ~lv.ok THEN lv
    ELSE IF truthy(lv.value) THEN Ok(Value_Boolean(TRUE))
    ELSE IF ~rv.ok THEN rv
    ELSE Ok(Value_Boolean(truthy(lv.value) \/ truthy(rv.value)))

\* evaluate, arithmetic and comparison arm on two values
evaluate_numeric(l, r, op) ==
    IF l.type = "Number" /\ r.type = "Number"
    THEN LET a == l.n
             b == r.n
         IN CASE op = "Add" -> Ok(Value_Number(f64_add(a, b)))
              [] op = "Sub" -> Ok(Value_Number(f64_sub(a, b)))
              [] op = "Mul" -> Ok(Value_Number(f64_mul(a, b)))
              [] op = "Div" -> IF f64_eq(b, << 0, 1 >>)
                               THEN Err(DivisionByZero)
                               ELSE Ok(Value_Number(f64_div(a, b)))
              [] op = "Eq" -> Ok(Value_Boolean(f64_eq(a, b)))
              [] op = "Neq" -> Ok(Value_Boolean(~f64_eq(a, b)))
              [] op = "Lt" -> Ok(Value_Boolean(f64_lt(a, b)))
              [] op = "Le" -> Ok(Value_Boolean(f64_le(a, b)))
              [] op = "Gt" -> Ok(Value_Boolean(f64_lt(b, a)))
              [] op = "Ge" -> Ok(Value_Boolean(f64_le(b, a)))
    ELSE Err(TypeMismatch)

evaluate_binary(lv, rv, op) ==
    IF ~lv.ok THEN lv
    ELSE IF ~rv.ok THEN rv
    ELSE evaluate_numeric(lv.value, rv.value, op)

RECURSIVE evaluate(_, _)
evaluate(self, name_to_value) ==
    CASE self.type = "Name" -> table_lookup(name_to_value, self.s)
      [] self.type = "Number" -> Ok(Value_Number(self.n))
      [] self.type = "Boolean" -> Ok(Value_Boolean(self.b))
      [] self.type = "Unary" ->
            LET val == evaluate(self.expression, name_to_value)
            IN IF ~val.ok THEN val ELSE evaluate_unary(self.operator, val.value)
      [] self.type = "Binary" ->
            LET lv == evaluate(self.left, name_to_value)
                rv == evaluate(self.right, name_to_value)
            IN CASE self.operator = "And" -> evaluate_and(lv, rv)
                 [] self.operator = "Or" -> evaluate_or(lv, rv)
                 [] OTHER -> evaluate_binary(lv, rv, self.operator)

\* reduce, Unary arm: reduced is the reduced operand.  The mutant folds
\* !n into a negation of a Boolean, which a second pass folds again.
reduce_unary_partial(operator, reduced) ==
    IF operator = "Negate" /\ reduced.type = "Number"
    THEN Number(f64_neg(reduced.n))
    ELSE IF operator = "Not" /\ reduced.type = "Number"
    THEN Unary("Not", Boolean(truthy(Value_Number(reduced.n))))
    ELSE IF operator = "Not" /\ reduced.type = "Boolean"
    THEN Boolean(~reduced.b)
    ELSE IF operator = "Not" /\ reduced.type = "Unary" /\ reduced.operator = "Not"
    THEN reduced.expression
    ELSE Unary(operator, reduced)

reduce_unary(operator, reduced) ==
    IF operator = "Negate" /\ reduced.type = "Number"
    THEN Number(f64_neg(reduced.n))
    ELSE IF operator = "Not" /\ reduced.type = "Number"
    THEN Boolean(~truthy(Value_Number(reduced.n)))
    ELSE IF operator = "Not" /\ reduced.type = "Boolean"
    THEN Boolean(~reduced.b)
    ELSE IF operator = "Not" /\ reduced.type = "Unary" /\ reduced.operator = "Not"
    THEN reduced.expression
    ELSE Unary(operator, reduced)

is_number(e) == e.type = "Number"
is_boolean(e) == e.type = "Boolean"
number_truthy(e) == truthy(Value_Number(e.n))

\* reduce, Binary arm: the match on (left, right, operator) of two reduced
\* operands, arm by arm in the order of the code
reduce_match(left, right, operator) ==
    LET both == is_number(left) /\ is_number(right)
        l == left.n
        r == right.n
    IN CASE both /\ operator = "Add" -> Number(f64_add(l, r))
         [] both /\ operator = "Sub" -> Number(f64_sub(l, r))
         [] both /\ operator = "Mul" -> Number(f64_mul(l, r))
         [] both /\ operator = "Div" -> Number(f64_div(l, r))
         [] both /\ operator = "Eq" -> Boolean(f64_eq(l, r))
         [] both /\ operator = "Neq" -> Boolean(~f64_eq(l, r))
         [] both /\ operator = "Lt" -> Boolean(f64_lt(l, r))
         [] both /\ operator = "Le" -> Boolean(f64_le(l, r))
         [] both /\ operator = "Gt" -> Boolean(f64_lt(r, l))
         [] both /\ operator = "Ge" -> Boolean(f64_le(r, l))
         [] OTHER ->
            IF is_boolean(left) /\ is_boolean(right) /\ operator = "And"
            THEN Boolean(left.b /\ right.b)
            ELSE IF is_boolean(left) /\ is_boolean(right) /\ operator = "Or"
            THEN Boolean(left.b \/ right.b)
            ELSE IF is_boolean(left) /\ is_number(right) /\ operator = "And"
            THEN Boolean(left.b /\ number_truthy(right))
            ELSE IF is_boolean(left) /\ is_number(right) /\ operator = "Or"
            THEN Boolean(left.b \/ number_truthy(right))
            ELSE IF is_number(left) /\ is_boolean(right) /\ operator = "And"
            THEN Boolean(number_truthy(left) /\ right.b)
            ELSE IF is_number(left) /\ is_boolean(right) /\ operator = "Or"
            THEN Boolean(number_truthy(left) \/ right.b)
            ELSE IF is_number(left) /\ operator = "And" /\ ~number_truthy(left)
            THEN Boolean(FALSE)
            ELSE IF is_number(left) /\ operator = "Or" /\ number_truthy(left)
            THEN Boolean(TRUE)
            ELSE IF is_number(right) /\ operator = "And" /\ ~number_truthy(right)
            THEN Boolean(FALSE)
            ELSE IF is_number(right) /\ operator = "Or" /\ number_truthy(right)
            THEN Boolean(TRUE)
            ELSE IF is_boolean(left) /\ ~left.b /\ operator = "And"
            THEN Boolean(FALSE)
            ELSE IF is_boolean(left) /\ left.b /\ operator = "Or"
            THEN Boolean(TRUE)
            ELSE IF is_boolean(right) /\ ~right.b /\ operator = "And"
            THEN Boolean(FALSE)
            ELSE IF is_boolean(right) /\ right.b /\ operator = "Or"
            THEN Boolean(TRUE)
            ELSE IF both /\ operator = "And"
            THEN Boolean(number_truthy(left) /\ number_truthy(right))
            ELSE IF both /\ operator = "Or"
            THEN Boolean(number_truthy(left) \/ number_truthy(right))
            ELSE Binary(left, operator, right)

\* reduce, Binary arm after both operands are reduced: a division by a
\* zero or non-finite number is left as it is
reduce_binary(left, operator, right) ==
    IF /\ operator = "Div"
       /\ is_number(left)
       /\ is_number(right)
       /\ (~is_finite(right.n) \/ f64_eq(right.n, << 0, 1 >>))
    THEN Binary(left, operator, right)
    ELSE reduce_match(left, right, operator)

RECURSIVE reduce(_)
reduce(self) ==
    CASE self.type \in {"Name", "Number", "Boolean"} -> self
      [] self.type = "Unary" ->
            reduce_unary(self.operator, reduce(self.expression))
      [] self.type = "Binary" ->
            reduce_binary(reduce(self.left), self.operator, reduce(self.right))

(***************************************************************************)
(* Expressions under reduce and evaluate.  An expression is built from a   *)
(* leaf by the constructors of enum Expression; every state holds the      *)
(* expression, its reduction, the reduction of that, and the results of    *)
(* evaluating the expression and its reduction on every symbol table.      *)
(***************************************************************************)
MaxExprSteps == 2

Leaves == { Number(<< 0, 1 >>), Number(<< 1, 1 >>), Number(INF), Name("x") }
UnaryOperators == { "Negate", "Not" }
BinaryOperators ==
    { "Add", "Sub", "Mul", "Div", "Eq", "Neq", "Lt", "Le", "Gt", "Ge", "And", "Or" }
\* the operators the builder combines with; reduce and evaluate take all
BuiltOperators == { "Add", "Div", "Lt", "And", "Or" }

\* symbol tables: x undefined, x = 0, x = 2
SymbolTables ==
    << << >>,
       [s \in {"x"} |-> Value_Number(<< 0, 1 >>)],
       [s \in {"x"} |-> Value_Number(<< 2, 1 >>)] >>

expression_state(e, steps) ==
    [pc |-> "built",
     e |-> e,
     steps |-> steps,
     reduced |-> reduce(e),
     again |-> reduce(reduce(e)),
     value |-> [t \in DOMAIN SymbolTables |-> evaluate(e, SymbolTables[t])],
     reduced_value |->
         [t \in DOMAIN SymbolTables |-> evaluate(reduce(e), SymbolTables[t])]]

InitExpression ==
    /\ idle_outside("expression")
    /\ \E leaf \in Leaves : expr = expression_state(leaf, 0)

\* Expression::Unary { operator, expression }
ExprUnary ==
    /\ expr.steps < MaxExprSteps
    /\ \E operator \in UnaryOperators :
          expr' = expression_state(Unary(operator, expr.e), expr.steps + 1)
    /\ UNCHANGED outside_expression

\* Expression::Binary { left, operator, right } with the expression on the left
ExprBinaryLeft ==
    /\ expr.steps < MaxExprSteps
    /\ \E operator \in BuiltOperators, leaf \in Leaves :
          expr' = expression_state(Binary(expr.e, operator, leaf), expr.steps + 1)
    /\ UNCHANGED outside_expression

\* Expression::Binary { left, operator, right } with the expression on the right
ExprBinaryRight ==
    /\ expr.steps < MaxExprSteps
    /\ \E operator \in BuiltOperators, leaf \in Leaves :
          expr' = expression_state(Binary(leaf, operator, expr.e), expr.steps + 1)
    /\ UNCHANGED outside_expression

NextExpression == ExprUnary \/ ExprBinaryLeft \/ ExprBinaryRight

SpecExpression == InitExpression /\ [][NextExpression]_vars

\* C12: reduce preserves meaning: on every symbol table, evaluating the
\* reduction of an expression returns what evaluating the expression
\* returns, the same value or the same error.
C12_ReducePreservesMeaning ==
    expr.pc = "built" =>
        \A t \in DOMAIN SymbolTables : expr.reduced_value[t] = expr.value[t]

\* C13: reduce is idempotent: reducing the reduction of an expression
\* gives the reduction again.
C13_ReduceIdempotent ==
    expr.pc = "built" => expr.again = expr.reduced

\* (0 < 1) && x reduces to true && x, which reduces to itself
C13_Witness ==
    /\ expr.pc = "built"
    /\ expr.e = Binary(Binary(Number(<< 0, 1 >>), "Lt", Number(<< 1, 1 >>)),
                       "And", Name("x"))
    /\ expr.reduced = Binary(Boolean(TRUE), "And", Name("x"))
    /\ expr.again = expr.reduced

\* a value is truthy iff it is true or a finite number other than zero
value_is_truthy(v) ==
    \/ v.type = "Boolean" /\ v.b
    \/ v.type = "Number" /\ v.n[2] # 0 /\ v.n[1] # 0

\* what a && b and a || b return, given the results of a and b alone
short_circuit(operator, a, b) ==
    IF ~a.ok THEN a
    ELSE IF operator = "And" /\ ~value_is_truthy(a.value) THEN Ok(Value_Boolean(FALSE))
    ELSE IF operator = "Or" /\ value_is_truthy(a.value) THEN Ok(Value_Boolean(TRUE))
    ELSE IF ~b.ok THEN b
    ELSE Ok(Value_Boolean(value_is_truthy(b.value)))

\* C14: && and || short-circuit: b is evaluated, and its error raised,
\* only when a does not decide the result (a truthy for &&, not truthy for
\* ||); the result is a Boolean, and operands of either type count through
\* truthiness, a number being truthy iff it is finite and not zero.
C14_ShortCircuit ==
    (expr.pc = "built" /\ expr.e.type = "Binary" /\ expr.e.operator \in {"And", "Or"}) =>
        \A t \in DOMAIN SymbolTables :
            LET a == evaluate(expr.e.left, SymbolTables[t])
                b == evaluate(expr.e.right, SymbolTables[t])
            IN /\ expr.value[t] = short_circuit(expr.e.operator, a, b)
               /\ expr.value[t].ok => expr.value[t].value.type = "Boolean"

\* inf && (1 / x): infinity is not truthy, so the left operand decides and
\* neither the undefined x nor the division by x = 0 on the right is raised
C14_Witness ==
    /\ expr.pc = "built"
    /\ expr.e = Binary(Number(INF), "And", Binary(Number(<< 1, 1 >>), "Div", Name("x")))
    /\ evaluate(expr.e.right, SymbolTables[1]) = Err(UndefinedVariable("x"))
    /\ evaluate(expr.e.right, SymbolTables[2]) = Err(DivisionByZero)
    /\ \A t \in DOMAIN SymbolTables : expr.value[t] = Ok(Value_Boolean(FALSE))

(***************************************************************************)
(* src/src/expressions.rs: the parser.  A token is a record with its kind  *)
(* (and its name, for an identifier); a parse returns the expression and   *)
(* the parser's position after it, or the error.  Positions are those of   *)
(* the code plus one.                                                      *)
(***************************************************************************)
Token(kind) == [kind |-> kind]
Identifier(s) == [kind |-> "Identifier", s |-> s]

\* enum ParseError
ChainedNonAssociative(what) == [kind |-> "ChainedNonAssociative", what |-> what]
UnexpectedToken(token) == [kind |-> "UnexpectedToken", token |-> token]
UnexpectedEoi == [kind |-> "UnexpectedEoi"]
UnmatchedParenthesis == [kind |-> "UnmatchedParenthesis"]

Parsed(expression, position) ==
    [ok |-> TRUE, expression |-> expression, position |-> position]

\* the token at the position is one of the options
peek_one_of(tokens, position, options) ==
    position <= Len(tokens) /\ tokens[position].kind \in options

match_token(tokens, position, token) == peek_one_of(tokens, position, {token})

binary_operator(token) ==
    CASE token.kind = "Or" -> "Or"
      [] token.kind = "And" -> "And"
      [] token.kind = "Eq" -> "Eq"
      [] token.kind = "Neq" -> "Neq"
      [] token.kind = "Lt" -> "Lt"
      [] token.kind = "Le" -> "Le"
      [] token.kind = "Gt" -> "Gt"
      [] token.kind = "Ge" -> "Ge"
      [] token.kind = "Plus" -> "Add"
      [] token.kind = "Minus" -> "Sub"
      [] token.kind = "Asterisk" -> "Mul"
      [] token.kind = "Solidus" -> "Div"

\* `let name = value;` followed by the code that uses the name
let_in(value, Rest(_)) == CHOOSE result \in { Rest(name) : name \in { value } } : TRUE

RECURSIVE parse_expression(_, _), parse_or_loop(_, _), parse_and(_, _)
RECURSIVE parse_and_loop(_, _), parse_equality(_, _), parse_relational(_, _)
RECURSIVE parse_term(_, _), parse_term_loop(_, _), parse_factor(_, _)
RECURSIVE parse_factor_loop(_, _), parse_unary(_, _), parse_primary(_, _)

parse_primary(tokens, position) ==
    IF position <= Len(tokens)
    THEN CASE tokens[position].kind = "Number" ->
                 Parsed(Number(tokens[position].n), position + 1)
           [] tokens[position].kind = "Identifier" ->
                 Parsed(Name(tokens[position].s), position + 1)
           [] tokens[position].kind = "LeftParenthesis" ->
                 let_in(parse_expression(tokens, position + 1),
                        LAMBDA inner :
                            IF ~inner.ok THEN inner
                            ELSE IF match_token(tokens, inner.position, "RightParenthesis")
                            THEN Parsed(inner.expression, inner.position + 1)
                            ELSE Err(UnmatchedParenthesis))
           [] OTHER -> Err(UnexpectedToken(tokens[position]))
    ELSE Err(UnexpectedEoi)

parse_unary(tokens, position) ==
    IF match_token(tokens, position, "Minus")
    THEN let_in(parse_unary(tokens, position + 1),
                LAMBDA operand :
                    IF ~operand.ok THEN operand
                    ELSE Parsed(Unary("Negate", operand.expression), operand.position))
    ELSE IF match_token(tokens, position, "Not")
    THEN let_in(parse_unary(tokens, position + 1),
                LAMBDA operand :
                    IF ~operand.ok THEN operand
                    ELSE Parsed(Unary("Not", operand.expression), operand.position))
    ELSE parse_primary(tokens, position)

\* the expression of an operator token between two operands
binary_of(tokens, so_far, right) ==
    Parsed(Binary(so_far.expression, binary_operator(tokens[so_far.position]),
                  right.expression),
           right.position)

\* the while loop of parse_factor, entered with the expression so far
parse_factor_loop(tokens, so_far) ==
    IF peek_one_of(tokens, so_far.position, {"Asterisk", "Solidus"})
    THEN let_in(parse_unary(tokens, so_far.position + 1),
                LAMBDA right :
                    IF ~right.ok THEN right
                    ELSE let_in(binary_of(tokens, so_far, right),
                                LAMBDA next : parse_factor_loop(tokens, next)))
    ELSE so_far

parse_factor(tokens, position) ==
    let_in(parse_unary(tokens, position),
           LAMBDA first : IF ~first.ok THEN first ELSE parse_factor_loop(tokens, first))

\* the while loop of parse_term
parse_term_loop(tokens, so_far) ==
    IF peek_one_of(tokens, so_far.position, {"Plus", "Minus"})
    THEN let_in(parse_factor(tokens, so_far.position + 1),
                LAMBDA right :
                    IF ~right.ok THEN right
                    ELSE let_in(binary_of(tokens, so_far, right),
                                LAMBDA next : parse_term_loop(tokens, next)))
    ELSE so_far

parse_term(tokens, position) ==
    let_in(parse_factor(tokens, position),
           LAMBDA first : IF ~first.ok THEN first ELSE parse_term_loop(tokens, first))

\* the mutant has no check for a following relational operator
parse_relational_unchecked(tokens, position) ==
    let_in(parse_term(tokens, position),
           LAMBDA first :
               IF ~first.ok THEN first
               ELSE IF peek_one_of(tokens, first.position, {"Lt", "Le", "Gt", "Ge"})
               THEN let_in(parse_term(tokens, first.position + 1),
                           LAMBDA right :
                               IF ~right.ok THEN right
                               ELSE binary_of(tokens, first, right))
               ELSE first)

parse_relational(tokens, position) ==
    let_in(parse_term(tokens, position),
           LAMBDA first :
               IF ~first.ok THEN first
               ELSE IF peek_one_of(tokens, first.position, {"Lt", "Le", "Gt", "Ge"})
               THEN let_in(parse_term(tokens, first.position + 1),
                           LAMBDA right :
                               IF ~right.ok THEN right
                               ELSE IF peek_one_of(tokens, right.position,
                                                   {"Lt", "Le", "Gt", "Ge"})
                               THEN Err(ChainedNonAssociative("relational (<, <=, >, >=)"))
                               ELSE binary_of(tokens, first, right))
               ELSE first)

parse_equality(tokens, position) ==
    let_in(parse_relational(tokens, position),
           LAMBDA first :
               IF ~first.ok THEN first
               ELSE IF peek_one_of(tokens, first.position, {"Eq", "Neq"})
               THEN let_in(parse_relational(tokens, first.position + 1),
                           LAMBDA right :
                               IF ~right.ok THEN right
                               ELSE IF peek_one_of(tokens, right.position, {"Eq", "Neq"})
                               THEN Err(ChainedNonAssociative("equality (==, !=)"))
                               ELSE binary_of(tokens, first, right))
               ELSE first)

\* the while loop of parse_and
parse_and_loop(tokens, so_far) ==
    IF match_token(tokens, so_far.position, "And")
    THEN let_in(parse_equality(tokens, so_far.position + 1),
                LAMBDA right :
                    IF ~right.ok THEN right
                    ELSE let_in(binary_of(tokens, so_far, right),
                                LAMBDA next : parse_and_loop(tokens, next)))
    ELSE so_far

parse_and(tokens, position) ==
    let_in(parse_equality(tokens, position),
           LAMBDA first : IF ~first.ok THEN first ELSE parse_and_loop(tokens, first))

\* the while loop of parse_or
parse_or_loop(tokens, so_far) ==
    IF match_token(tokens, so_far.position, "Or")
    THEN let_in(parse_and(tokens, so_far.position + 1),
                LAMBDA right :
                    IF ~right.ok THEN right
                    ELSE let_in(binary_of(tokens, so_far, right),
                                LAMBDA next : parse_or_loop(tokens, next)))
    ELSE so_far

parse_expression(tokens, position) ==
    let_in(parse_and(tokens, position),
           LAMBDA first : IF ~first.ok THEN first ELSE parse_or_loop(tokens, first))

\* impl TryFrom<&str> for Expression, from the token list on
try_from(tokens) ==
    IF tokens = << >> THEN Err([kind |-> "EmptyInput"])
    ELSE let_in(parse_expression(tokens, 1),
                LAMBDA parsed :
                    IF ~parsed.ok THEN parsed
                    ELSE IF parsed.position # Len(tokens) + 1
                    THEN Err(UnexpectedToken(tokens[parsed.position]))
                    ELSE [ok |-> TRUE, expression |-> parsed.expression])

(***************************************************************************)
(* Token lists under the parser.  A list is an operand followed by up to   *)
(* MaxOperators pairs of a binary operator and an operand; an operand is   *)
(* an identifier or a parenthesised comparison.  Every state holds the     *)
(* list, the operators outside parentheses, and what try_from returns.     *)
(***************************************************************************)
MaxOperators == 3

OperatorTokens == { "Lt", "Ge", "Eq", "Neq", "And", "Plus" }

identifier_operand == << Identifier("a") >>
group_operand ==
    << Token("LeftParenthesis"), Identifier("a"), Token("Lt"), Identifier("b"),
       Token("RightParenthesis") >>

parser_state(tokens, operators) ==
    [pc |-> "parsed", tokens |-> tokens, operators |-> operators,
     result |-> try_from(tokens)]

InitParser ==
    /\ idle_outside("parser")
    /\ \E operand \in { identifier_operand, group_operand } :
          prs = parser_state(operand, << >>)

\* the lexer hands over an operator and an identifier
LexIdentifier ==
    /\ Len(prs.operators) < MaxOperators
    /\ \E kind \in OperatorTokens :
          prs' = parser_state(prs.tokens \o << Token(kind) >> \o identifier_operand,
                              Append(prs.operators, kind))
    /\ UNCHANGED outside_parser

\* the lexer hands over an operator and a parenthesised comparison
LexGroup ==
    /\ Len(prs.operators) < MaxOperators
    /\ \E kind \in OperatorTokens :
          prs' = parser_state(prs.tokens \o << Token(kind) >> \o group_operand,
                              Append(prs.operators, kind))
    /\ UNCHANGED outside_parser

NextParser == LexIdentifier \/ LexGroup

SpecParser == InitParser /\ [][NextParser]_vars

relational_kinds == { "Lt", "Le", "Gt", "Ge" }
equality_kinds == { "Eq", "Neq" }
arithmetic_kinds == { "Plus", "Minus", "Asterisk", "Solidus" }

\* operator j follows a complete comparison of its own level: an earlier
\* operator of that level with nothing of a looser level in between
chained_at(operators, j) ==
    \/ /\ operators[j] \in relational_kinds
       /\ \E i \in 1..(j - 1) :
             /\ operators[i] \in relational_kinds
             /\ \A m \in (i + 1)..(j - 1) : operators[m] \in arithmetic_kinds
    \/ /\ operators[j] \in equality_kinds
       /\ \E i \in 1..(j - 1) :
             /\ operators[i] \in equality_kinds
             /\ \A m \in (i + 1)..(j - 1) :
                   operators[m] \in arithmetic_kinds \cup relational_kinds

chained(operators) == { j \in 1..Len(operators) : chained_at(operators, j) }

first_chained(operators) ==
    CHOOSE j \in chained(operators) : \A k \in chained(operators) : j <= k

chained_error(kind) ==
    IF kind \in relational_kinds
    THEN ChainedNonAssociative("relational (<, <=, >, >=)")
    ELSE ChainedNonAssociative("equality (==, !=)")

\* C15: a token list in which a relational operator follows a complete
\* relational comparison, or an equality operator a complete equality
\* comparison, fails to parse with ChainedNonAssociative and yields no
\* expression; every other list, with parenthesised comparisons as
\* operands and with comparisons of mixed levels, parses.
C15_ChainedComparisons ==
    prs.pc = "parsed" =>
        IF chained(prs.operators) = {}
        THEN prs.result.ok
        ELSE /\ ~prs.result.ok
             /\ prs.result.error =
                   chained_error(prs.operators[first_chained(prs.operators)])

\* a < a + a < a
C15_Witness ==
    /\ prs.pc = "parsed"
    /\ prs.operators = << "Lt", "Plus", "Lt" >>
    /\ Len(prs.tokens) = 7
    /\ prs.result = Err(ChainedNonAssociative("relational (<, <=, >, >=)"))

(***************************************************************************)
(* src/src/records.rs: symbol tables, filtering, selection and sorting.    *)
(* A record holds its measurements by metric, each with the sums under the *)
(* two weights, and the totals of each n-gram arity; `id` is the record's  *)
(* position in the list handed in.  The details of a measurement, which    *)
(* normalize filters and sorts, are left out.                              *)
(***************************************************************************)
Weights == { "Effort", "Raw" }

\* Measurement::sum_by_weight
sum_by_weight(measurement, weight) ==
    IF weight = "Effort" THEN measurement.sum_ew ELSE measurement.sum

\* metric.to_string().to_lowercase()
to_lowercase(metric) ==
    CASE metric = "Lt" -> "lt"
      [] metric = "Sfb" -> "sfb"

\* the n-gram arity of a metric: UnigramMetric::Lt, BigramMetric::Sfb
metric_arity(metric) ==
    CASE metric = "Lt" -> 1
      [] metric = "Sfb" -> 2

\* the mutant divides whatever the denominator
calculate_frac_unchecked(n, t) == Some(f64_div(<< n, 1 >>, << t, 1 >>))

calculate_frac(n, t) ==
    IF t = 0 THEN None ELSE Some(f64_div(<< n, 1 >>, << t, 1 >>))

calculate_perc(n, t) ==
    LET frac == calculate_frac(n, t)
    IN IF IsSome(frac) THEN Some(f64_mul(Unwrap(frac), << 100, 1 >>)) ELSE None

\* build_symbol_table: the denominator of an arity under the weight
symbol_denominator(self, arity, weight) ==
    IF weight = "Effort"
    THEN (IF arity = 1 THEN self.uf_sum_ew ELSE self.bf_sum_ew)
    ELSE (IF arity = 1 THEN self.uf_sum ELSE self.bf_sum)

\* build_symbol_table, iter_pairs: the percentage of one metric, if any
symbol_perc(self, metric, weight) ==
    calculate_perc(sum_by_weight(self.measurements[metric], weight),
                   symbol_denominator(self, metric_arity(metric), weight))

build_symbol_table(self, weight) ==
    LET present == { metric \in DOMAIN self.measurements :
                        IsSome(symbol_perc(self, metric, weight)) }
        metric_of(symbol) == CHOOSE metric \in present : to_lowercase(metric) = symbol
    IN [symbol \in { to_lowercase(metric) : metric \in present } |->
           Value_Number(Unwrap(symbol_perc(self, metric_of(symbol), weight)))]

\* Record::sum
record_sum(self, metric, weight) ==
    IF metric \in DOMAIN self.measurements
    THEN Some(sum_by_weight(self.measurements[metric], weight))
    ELSE None

\* filter_records: what the match on one filter's result does
filter_arm(result) ==
    IF result.ok /\ result.value.type = "Number" /\ f64_eq(result.value.n, << 0, 1 >>)
    THEN "drop"
    ELSE IF result.ok /\ result.value.type = "Boolean" /\ ~result.value.b
    THEN "drop"
    ELSE IF result.ok THEN "continue"
    ELSE "error"

\* filter_records: the loop over the filters from filter k on, for one record
RECURSIVE filter_loop(_, _, _)
filter_loop(symbol_table, filters, k) ==
    IF k > Len(filters) THEN [arm |-> "keep"]
    ELSE LET result == evaluate(filters[k], symbol_table)
             arm == filter_arm(result)
         IN IF arm = "drop" THEN [arm |-> "drop"]
            ELSE IF arm = "error" THEN [arm |-> "error", error |-> result.error]
            ELSE filter_loop(symbol_table, filters, k + 1)

\* filter_records: the closure of filter_map on one record
filter_closure(record, filters, weight) ==
    IF filters # << >>
    THEN filter_loop(build_symbol_table(record, weight), filters, 1)
    ELSE [arm |-> "keep"]

\* filter_records: collect::<Result<Vec<_>, _>>() from record k on
RECURSIVE filter_collect(_, _, _, _, _)
filter_collect(records, filters, weight, k, kept) ==
    IF k > Len(records) THEN [ok |-> TRUE, records |-> kept]
    ELSE LET outcome == filter_closure(records[k], filters, weight)
         IN IF outcome.arm = "error" THEN Err(outcome.error)
            ELSE filter_collect(records, filters, weight, k + 1,
                                IF outcome.arm = "keep"
                                THEN Append(kept, records[k])
                                ELSE kept)

filter_records(records, filters, weight) ==
    filter_collect(records, filters, weight, 1, << >>)

\* Vec::truncate
vec_truncate(records, len) ==
    IF len < Len(records) THEN SubSeq(records, 1, len) ELSE records

\* select_records: the position a signed index stands for; the mutant
\* counts from the head only
resolve_index_from_head(index, length) == index

resolve_index(index, length) == IF index < 0 THEN length + index ELSE index

select_records(records, max_selections, index) ==
    LET truncated == IF IsSome(max_selections)
                     THEN vec_truncate(records, Unwrap(max_selections))
                     ELSE records
    IN IF IsSome(index)
       THEN LET length == Len(truncated)
                i == resolve_index(Unwrap(index), length)
            IN IF i < 0 \/ i >= length
               THEN Err([kind |-> "IndexOutOfBounds", index |-> Unwrap(index),
                         length |-> length])
               ELSE [ok |-> TRUE,
                     records |-> vec_truncate(Swap(truncated, 1, i + 1), 1)]
       ELSE [ok |-> TRUE, records |-> truncated]

\* Option<u64>::cmp: None is less than Some
option_cmp(a, b) ==
    IF ~IsSome(a) /\ ~IsSome(b) THEN "Equal"
    ELSE IF ~IsSome(a) THEN "Less"
    ELSE IF ~IsSome(b) THEN "Greater"
    ELSE IF Unwrap(a) < Unwrap(b) THEN "Less"
    ELSE IF Unwrap(a) > Unwrap(b) THEN "Greater"
    ELSE "Equal"

\* Ordering::reverse
ordering_reverse(ordering) ==
    CASE ordering = "Less" -> "Greater"
      [] ordering = "Greater" -> "Less"
      [] OTHER -> ordering

\* sort_records: the ordering of one rule in its direction; the mutant
\* sorts every rule ascending
directed_ascending(ordering, sort_direction) == ordering

directed(ordering, sort_direction) ==
    IF sort_direction = "Descending" THEN ordering_reverse(ordering) ELSE ordering

\* sort_records: the comparator, from rule k on
RECURSIVE sort_closure(_, _, _, _, _)
sort_closure(a, b, sort_rules, weight, k) ==
    IF k > Len(sort_rules) THEN "Equal"
    ELSE LET sort_rule == sort_rules[k]
             ordering == directed(option_cmp(record_sum(a, sort_rule.metric, weight),
                                             record_sum(b, sort_rule.metric, weight)),
                                  sort_rule.sort_direction)
         IN IF ordering # "Equal" THEN ordering
            ELSE sort_closure(a, b, sort_rules, weight, k + 1)

\* slice::sort_by, a stable sort: x goes behind the last element of the
\* sorted prefix that is not greater than it
RECURSIVE stable_insert(_, _, _, _)
stable_insert(sorted, x, sort_rules, weight) ==
    IF sorted = << >> THEN << x >>
    ELSE IF sort_closure(sorted[Len(sorted)], x, sort_rules, weight, 1) = "Greater"
    THEN Append(stable_insert(SubSeq(sorted, 1, Len(sorted) - 1), x, sort_rules, weight),
                sorted[Len(sorted)])
    ELSE Append(sorted, x)

RECURSIVE sort_by(_, _, _, _, _)
sort_by(records, sort_rules, weight, k, sorted) ==
    IF k > Len(records) THEN sorted
    ELSE sort_by(records, sort_rules, weight, k + 1,
                 stable_insert(sorted, records[k], sort_rules, weight))

sort_records(records, sort_rules, weight) ==
    sort_by(records, sort_rules, weight, 1, << >>)

(***************************************************************************)
(* Record lists under the four operations.  The records are of four kinds: *)
(* one with both metrics measured, one whose Sfb sums are zero, one from   *)
(* an empty n-gram table (all totals zero), one without the Lt metric.     *)
(***************************************************************************)
MaxRecords == 3
MaxFilters == 2
MaxSortRules == 2

measurement(sum, sum_ew) == [sum |-> sum, sum_ew |-> sum_ew]

RecordKinds ==
    { [measurements |-> [m \in {"Lt", "Sfb"} |->
                            IF m = "Lt" THEN measurement(3, 3) ELSE measurement(1, 2)],
       uf_sum |-> 6, uf_sum_ew |-> 12, bf_sum |-> 4, bf_sum_ew |-> 4],
      [measurements |-> [m \in {"Lt", "Sfb"} |->
                            IF m = "Lt" THEN measurement(3, 6) ELSE measurement(0, 0)],
       uf_sum |-> 6, uf_sum_ew |-> 12, bf_sum |-> 4, bf_sum_ew |-> 4],
      [measurements |-> [m \in {"Lt", "Sfb"} |-> measurement(0, 0)],
       uf_sum |-> 0, uf_sum_ew |-> 0, bf_sum |-> 0, bf_sum_ew |-> 0],
      [measurements |-> [m \in {"Sfb"} |-> measurement(2, 1)],
       uf_sum |-> 6, uf_sum_ew |-> 12, bf_sum |-> 4, bf_sum_ew |-> 4] }

with_id(kind, id) ==
    [id |-> id, measurements |-> kind.measurements,
     uf_sum |-> kind.uf_sum, uf_sum_ew |-> kind.uf_sum_ew,
     bf_sum |-> kind.bf_sum, bf_sum_ew |-> kind.bf_sum_ew]

RecordLists ==
    UNION { { [k \in 1..n |-> with_id(kinds[k], k)] : kinds \in [1..n -> RecordKinds] } :
            n \in 0..MaxRecords }

\* sfb, sfb < 50, sfb * inf, 1 / sfb
Filters ==
    { Name("sfb"),
      Binary(Name("sfb"), "Lt", Number(<< 50, 1 >>)),
      Binary(Name("sfb"), "Mul", Number(INF)),
      Binary(Number(<< 1, 1 >>), "Div", Name("sfb")) }

FilterLists == UNION { [1..n -> Filters] : n \in 0..MaxFilters }

SortRules ==
    { [metric |-> metric, sort_direction |-> sort_direction] :
        metric \in {"Lt", "Sfb"}, sort_direction \in {"Ascending", "Descending"} }

SortRuleLists == UNION { [1..n -> SortRules] : n \in 0..MaxSortRules }

MaxSelections == { None } \cup { Some(n) : n \in 0..MaxRecords }
Indexes == { None } \cup { Some(i) : i \in (0 - MaxRecords - 1)..MaxRecords }

InitRecords ==
    /\ idle_outside("records")
    /\ \E records \in RecordLists, weight \in Weights :
          rcd = [pc |-> "input", records |-> records, weight |-> weight]

RcdSymbolTable ==
    /\ rcd.pc = "input"
    /\ \E k \in 1..Len(rcd.records) :
          rcd' = [pc |-> "symbols", records |-> rcd.records, weight |-> rcd.weight,
                  record |-> rcd.records[k],
                  symbol_table |-> build_symbol_table(rcd.records[k], rcd.weight)]
    /\ UNCHANGED outside_records

RcdFilter ==
    /\ rcd.pc = "input"
    /\ \E filters \in FilterLists :
          rcd' = [pc |-> "filtered", records |-> rcd.records, weight |-> rcd.weight,
                  filters |-> filters,
                  result |-> filter_records(rcd.records, filters, rcd.weight)]
    /\ UNCHANGED outside_records

RcdSelect ==
    /\ rcd.pc = "input"
    /\ \E max_selections \in MaxSelections, index \in Indexes :
          rcd' = [pc |-> "selected", records |-> rcd.records, weight |-> rcd.weight,
                  max_selections |-> max_selections, index |-> index,
                  result |-> select_records(rcd.records, max_selections, index)]
    /\ UNCHANGED outside_records

RcdSort ==
    /\ rcd.pc = "input"
    /\ \E sort_rules \in SortRuleLists :
          rcd' = [pc |-> "sorted", records |-> rcd.records, weight |-> rcd.weight,
                  sort_rules |-> sort_rules,
                  result |-> sort_records(rcd.records, sort_rules, rcd.weight)]
    /\ UNCHANGED outside_records

NextRecords == RcdSymbolTable \/ RcdFilter \/ RcdSelect \/ RcdSort

SpecRecords == InitRecords /\ [][NextRecords]_vars

\* a filter is satisfied by Boolean true and by a truthy number
satisfied(result) == result.ok /\ value_is_truthy(result.value)

filter_results(record, filters, weight) ==
    [k \in DOMAIN filters |-> evaluate(filters[k], build_symbol_table(record, weight))]

\* every filter is satisfied on the record
passes(record, filters, weight) ==
    \A k \in DOMAIN filters : satisfied(filter_results(record, filters, weight)[k])

\* the first filter that is not satisfied on the record fails to evaluate
fails(record, filters, weight) ==
    \E k \in DOMAIN filters :
        /\ ~filter_results(record, filters, weight)[k].ok
        /\ \A j \in 1..(k - 1) : satisfied(filter_results(record, filters, weight)[j])

first_error(record, filters, weight) ==
    LET outcomes == filter_results(record, filters, weight)
    IN outcomes[CHOOSE k \in DOMAIN filters :
                   ~outcomes[k].ok /\ \A j \in 1..(k - 1) : satisfied(outcomes[j])]

RECURSIVE passing(_, _, _)
passing(records, filters, weight) ==
    IF records = << >> THEN << >>
    ELSE (IF passes(Head(records), filters, weight) THEN << Head(records) >> ELSE << >>)
         \o passing(Tail(records), filters, weight)

\* C16: filter_records keeps a record iff every filter evaluates on its
\* symbol table to true or to a finite non-zero number, keeps the
\* survivors in input order and, when an evaluation fails, returns the
\* first error in record order, then filter order, and no list.
C16_FilterRecords ==
    rcd.pc = "filtered" =>
        LET failing == { k \in DOMAIN rcd.records :
                            fails(rcd.records[k], rcd.filters, rcd.weight) }
        IN IF failing = {}
           THEN /\ rcd.result.ok
                /\ rcd.result.records = passing(rcd.records, rcd.filters, rcd.weight)
           ELSE rcd.result =
                   first_error(rcd.records[CHOOSE k \in failing : \A j \in failing : k <= j],
                               rcd.filters, rcd.weight)

\* the total of the metric's n-gram arity under the weight
total_sum(record, metric, weight) ==
    CASE metric = "Lt" /\ weight = "Raw" -> record.uf_sum
      [] metric = "Lt" /\ weight = "Effort" -> record.uf_sum_ew
      [] metric = "Sfb" /\ weight = "Raw" -> record.bf_sum
      [] metric = "Sfb" /\ weight = "Effort" -> record.bf_sum_ew

metric_sum(record, metric, weight) ==
    IF weight = "Raw"
    THEN record.measurements[metric].sum
    ELSE record.measurements[metric].sum_ew

symbol_name(metric) == IF metric = "Lt" THEN "lt" ELSE "sfb"

\* C17: the symbol table maps each lower-cased metric name to
\* 100 * metric_sum / total_sum under the active weight and holds no symbol
\* for a metric whose total is zero, so that reading it is an
\* UndefinedVariable error.
C17_SymbolTable ==
    rcd.pc = "symbols" =>
        /\ DOMAIN rcd.symbol_table \subseteq
              { symbol_name(metric) : metric \in DOMAIN rcd.record.measurements }
        /\ \A metric \in DOMAIN rcd.record.measurements :
              LET symbol == symbol_name(metric)
                  total == total_sum(rcd.record, metric, rcd.weight)
                  read == evaluate(Name(symbol), rcd.symbol_table)
              IN IF total = 0
                 THEN /\ symbol \notin DOMAIN rcd.symbol_table
                      /\ read = Err(UndefinedVariable(symbol))
                 ELSE /\ read.ok
                      /\ read.value.type = "Number"
                      /\ read.value.n[2] > 0
                      /\ read.value.n[1] * total =
                            100 * metric_sum(rcd.record, metric, rcd.weight) * read.value.n[2]

\* a record of an empty n-gram table beside one whose lt is 25 under Effort
C17_Witness ==
    /\ rcd.pc = "symbols"
    /\ rcd.weight = "Effort"
    /\ rcd.record.uf_sum_ew = 12
    /\ DOMAIN rcd.symbol_table = { "lt", "sfb" }
    /\ rcd.symbol_table["lt"] = Value_Number(<< 25, 1 >>)
    /\ rcd.symbol_table["sfb"] = Value_Number(<< 50, 1 >>)
    /\ \E k \in DOMAIN rcd.records :
          /\ rcd.records[k].bf_sum_ew = 0
          /\ build_symbol_table(rcd.records[k], rcd.weight) = << >>

rule_sum(record, sort_rule, weight) ==
    IF sort_rule.metric \in DOMAIN record.measurements
    THEN metric_sum(record, sort_rule.metric, weight)
    ELSE -1

differing(a, b, sort_rules, weight) ==
    { k \in DOMAIN sort_rules :
         rule_sum(a, sort_rules[k], weight) # rule_sum(b, sort_rules[k], weight) }

\* a may stand before b: on the first rule they differ on, a comes first in
\* the rule's direction; if they differ on none, a came first in the input
in_order(a, b, sort_rules, weight) ==
    LET ks == differing(a, b, sort_rules, weight)
    IN IF ks = {} THEN a.id < b.id
       ELSE LET k == CHOOSE k \in ks : \A j \in ks : k <= j
            IN IF sort_rules[k].sort_direction = "Ascending"
               THEN rule_sum(a, sort_rules[k], weight) < rule_sum(b, sort_rules[k], weight)
               ELSE rule_sum(a, sort_rules[k], weight) > rule_sum(b, sort_rules[k], weight)

\* C19: sort_records orders the records by the rules in sequence, each
\* comparing the sums of its metric under the weight in its direction,
\* the first rule on which two records differ deciding; records equal on
\* all rules keep their input order.
C19_SortRecords ==
    rcd.pc = "sorted" =>
        /\ Len(rcd.result) = Len(rcd.records)
        /\ { rcd.result[k] : k \in DOMAIN rcd.result } =
              { rcd.records[k] : k \in DOMAIN rcd.records }
        /\ \A p, q \in DOMAIN rcd.result :
              p < q => in_order(rcd.result[p], rcd.result[q], rcd.sort_rules, rcd.weight)

\* sorted by Sfb descending: the record with the larger sum moves to the
\* front and the two records with equal sums keep their order
C19_Witness ==
    /\ rcd.pc = "sorted"
    /\ rcd.weight = "Raw"
    /\ rcd.sort_rules = << [metric |-> "Sfb", sort_direction |-> "Descending"] >>
    /\ Len(rcd.records) = 3
    /\ << rcd.result[1].id, rcd.result[2].id, rcd.result[3].id >> = << 3, 1, 2 >>
    /\ metric_sum(rcd.records[1], "Sfb", "Raw") = metric_sum(rcd.records[2], "Sfb", "Raw")

(***************************************************************************)
(* src/src/layouts.rs: LayoutTable::mask, and the mask by the key table in *)
(* main.  A table is a matrix of TableRows rows of optional cells; rows    *)
(* and columns count from 1 where the code counts from 0.                  *)
(***************************************************************************)
TableRows == 1
MaxColumns == 2

\* Digit(Laterality, Position)
Digits == { << "Left", "Index" >>, << "Right", "Index" >> }

table_cells(matrix) == { << r, c >> : r \in DOMAIN matrix, c \in DOMAIN matrix[1] }

\* the predicates mask is called with: that of main, which asks whether
\* the key table has a key in the cell, and three others
MaskPredicates == { "key_is_some", "left_hand", "first_column", "never" }

predicate(kind, key_table, r, c, digit) ==
    CASE kind = "key_is_some" -> IsSome(key_table[r][c])
      [] kind = "left_hand" -> digit[1] = "Left"
      [] kind = "first_column" -> c = 1
      [] kind = "never" -> FALSE

mask(self, kind, key_table) ==
    [r \in DOMAIN self |->
        [c \in DOMAIN self[r] |->
            IF IsSome(self[r][c]) /\ ~predicate(kind, key_table, r, c, Unwrap(self[r][c]))
            THEN None
            ELSE self[r][c]]]

LayoutTables ==
    [1..TableRows -> [1..MaxColumns -> { None } \cup { Some(digit) : digit \in Digits }]]

KeyTables == [1..TableRows -> [1..MaxColumns -> { None, Some(97), Some(98) }]]

InitLayout ==
    /\ idle_outside("layout")
    /\ \E layout_table \in LayoutTables, key_table \in KeyTables :
          lay = [pc |-> "read", layout_table |-> layout_table, key_table |-> key_table]

masked_state(kind) ==
    [pc |-> "masked", read |-> lay.layout_table, key_table |-> lay.key_table,
     kind |-> kind, layout_table |-> mask(lay.layout_table, kind, lay.key_table)]

\* main: layout_table.mask(|r, c, _digit| key_table.0[r][c].is_some())
MainMask ==
    /\ lay.pc = "read"
    /\ lay' = masked_state("key_is_some")
    /\ UNCHANGED outside_layout

\* mask with another predicate
MaskBy ==
    /\ lay.pc = "read"
    /\ \E kind \in MaskPredicates \ { "key_is_some" } : lay' = masked_state(kind)
    /\ UNCHANGED outside_layout

NextLayout == MainMask \/ MaskBy

SpecLayout == InitLayout /\ [][NextLayout]_vars

\* what the predicate of the call answers for a cell that holds a digit
predicate_holds(r, c) ==
    CASE lay.kind = "key_is_some" -> lay.key_table[r][c] # None
      [] lay.kind = "left_hand" -> lay.read[r][c] = Some(<< "Left", "Index" >>)
      [] lay.kind = "first_column" -> c = 1
      [] lay.kind = "never" -> FALSE

\* mask nulls the cells that hold a digit the predicate rejects and
\* leaves every other cell as it was
MaskExact ==
    lay.pc = "masked" =>
        \A at \in table_cells(lay.read) :
            LET r == at[1]
                c == at[2]
            IN lay.layout_table[r][c] =
                  IF lay.read[r][c] # None /\ ~predicate_holds(r, c)
                  THEN None
                  ELSE lay.read[r][c]

\* C20: once main has masked the layout by the key table, a layout cell
\* holds a digit iff the key cell holds a key; and mask nulls exactly the
\* cells whose predicate is false, leaving the others unchanged.
C20_MaskedLayout ==
    /\ (lay.pc = "masked" /\ lay.kind = "key_is_some") =>
          \A at \in table_cells(lay.layout_table) :
              (lay.layout_table[at[1]][at[2]] # None)
                 <=> (lay.key_table[at[1]][at[2]] # None)
    /\ MaskExact

(***************************************************************************)
(* Further properties of a search                                          *)
(***************************************************************************)
\* the entries of a deque
entries(deque) == {deque[k] : k \in 1..Len(deque)}

\* kept is a cut of the candidates that satisfy the threshold: every candidate
\* that was cut off is no better under the goal than every entry kept
cut_keeps_best(goal, candidates, kept, threshold) ==
    LET eligible == {e \in candidates : goal_better_or_equal(goal, e.score, threshold)}
        discarded == eligible \ entries(kept)
    IN \A d \in discarded : \A k \in entries(kept) :
          goal_better_or_equal(goal, k.score, d.score)

\* the record set consider_record leaves when the next candidate of the
\* sequential loop, or of chunk k, is given score
seq_considered(score) ==
    LET matrix == substitute(seq.matrix, generated1[seq.g1], generated2[seq.g2],
                             generated3[seq.g3])
    IN [before |-> seq.rs,
        entry |-> [score |-> score, index |-> seq.n_permutations, matrix |-> matrix],
        after |-> consider_record(matrix, score, seq.n_permutations, input.goal,
                                  input.tolerance, max_records_opt, seq.rs)]

chunk_considered(k, score) ==
    LET c == par.segs[k]
        matrix == materialise(c.cur)
    IN [before |-> c.rs,
        entry |-> [score |-> score, index |-> c.cur, matrix |-> matrix],
        after |-> consider_record(matrix, score, c.cur, input.goal,
                                  input.tolerance, max_records_opt, c.rs)]

\* every consider_record call the search can make in this state
considerations ==
    (IF seq.pc = "run"
     THEN {seq_considered(score) :
             score \in score_choices(seq_considered(0).entry.matrix)}
     ELSE {})
    \cup (IF par.pc = "run"
          THEN UNION {{chunk_considered(k, score) :
                          score \in score_choices(materialise(par.segs[k].cur))} :
                      k \in {j \in 1..Len(par.segs) : par.segs[j].cur < par.segs[j].hi}}
          ELSE {})

\* every pair of partial results the reduce closure can be applied to
reductions ==
    IF par.pc = "run"
    THEN {<< par.segs[k].rs, par.segs[k + 1].rs >> :
            k \in {j \in 1..(Len(par.segs) - 1) :
                      /\ par.segs[j].cur = par.segs[j].hi
                      /\ par.segs[j + 1].cur = par.segs[j + 1].hi}}
    ELSE {}

\* C21: whenever a record set is cut to the cap, by truncate inside
\* consider_record and by the early stop of the merge of the reduce closure,
\* the entries kept are the best under the goal: every entry discarded is no
\* better than every entry kept.
C21_CutKeepsBest ==
    /\ \A c \in considerations :
          cut_keeps_best(input.goal, entries(c.before.records) \cup {c.entry},
                         c.after.records, c.after.threshold_score)
    /\ \A p \in reductions :
          LET merged == reduce_op(p[1], p[2], input.goal, max_records_opt)
          IN cut_keeps_best(input.goal,
                            entries(p[1].records) \cup entries(p[2].records),
                            merged.records, merged.threshold_score)

\* the part of C21 that is about truncate inside consider_record
C21_TruncateKeepsBest ==
    \A c \in considerations :
       cut_keeps_best(input.goal, entries(c.before.records) \cup {c.entry},
                      c.after.records, c.after.threshold_score)

\* the record set a finished variant collected its records from, with the
\* result the driver made of it
returns ==
    (IF seq.pc = "returned"
     THEN {[rs |-> seq.rs, n_permutations |-> seq.n_permutations,
            result |-> Unwrap(seq.result)]}
     ELSE {})
    \cup (IF par.pc = "returned"
          THEN {[rs |-> par.segs[1].rs, n_permutations |-> par.n_permutations,
                 result |-> Unwrap(par.result)]}
          ELSE {})

\* the entries of the final record set whose matrix the driver did not return
removed(r) ==
    {e \in entries(r.rs.records) :
        \A k \in 1..Len(r.result.records) : r.result.records[k] # e.matrix}

\* C22: when a search ends with the overflow entry, the driver removes one
\* entry and it is the worst retained one under the goal; so with K_max >= 1 a
\* search that scored a candidate returns a list that contains an entry whose
\* score is the best score of the search, for Max and for Min.
C22_OverflowEntryIsWorst ==
    \A r \in returns :
       /\ r.result.records_truncated =>
            /\ Cardinality(removed(r)) = 1
            /\ \A d \in removed(r) : \A e \in entries(r.rs.records) :
                  goal_better_or_equal(input.goal, e.score, d.score)
       /\ (IsSome(input.max_records_opt) /\ Unwrap(input.max_records_opt) >= 1
              /\ r.n_permutations >= 1) =>
            \E k \in 1..Len(r.result.records) :
               scoring_fn[r.result.records[k]] = best_of(r.n_permutations)

(***************************************************************************)
(* The enumeration of the candidates.  SpecEnumeration runs the same two   *)
(* variants as Spec, on regions of up to MaxPoolLen keys, with a scoring   *)
(* closure that returns 0 for every matrix, tolerance 1.0 and no record    *)
(* cap: every candidate is retained with its index.  The matrix built for  *)
(* an index depends on the index alone, so the parallel range is folded as *)
(* one chunk.                                                              *)
(***************************************************************************)
\* layouts are tried up to this many candidates
MaxCandidates == 24

\* the pool of region r with length keys, padded with the default byte
enumeration_pool(r, length) ==
    [k \in 1..MaxPoolLen |-> IF k <= length THEN 96 + (r - 1) * MaxPoolLen + k ELSE 0]

\* the coordinates of region r: MaxPoolLen cells of its own
enumeration_coordinates(r) == [k \in 1..MaxPoolLen |-> (r - 1) * MaxPoolLen + k]

\* the base matrix: the cells of region r hold the marker r, the last cell
\* belongs to no region
enumeration_matrix ==
    [k \in 1..(3 * MaxPoolLen + 1) |->
        IF k > 3 * MaxPoolLen THEN 9 ELSE ((k - 1) \div MaxPoolLen) + 1]

EnumerationLayouts ==
    { [matrix |-> enumeration_matrix,
       region1 |-> [array |-> enumeration_pool(1, l1), length |-> l1,
                    coordinates |-> enumeration_coordinates(1)],
       region2 |-> [array |-> enumeration_pool(2, l2), length |-> l2,
                    coordinates |-> enumeration_coordinates(2)],
       region3 |-> [array |-> enumeration_pool(3, l3), length |-> l3,
                    coordinates |-> enumeration_coordinates(3)]] :
      l1 \in 0..MaxPoolLen, l2 \in 0..MaxPoolLen, l3 \in 0..MaxPoolLen }

EnumerationInputs ==
    { [goal |-> g, tolerance |-> << 1, 1 >>, max_permutations_opt |-> p,
       max_records_opt |-> None,
       matrix |-> l.matrix, region1 |-> l.region1, region2 |-> l.region2,
       region3 |-> l.region3] :
      g \in Goals, p \in PermutationCaps,
      l \in {e \in EnumerationLayouts :
                factorial(e.region1.length) * factorial(e.region2.length)
                    * factorial(e.region3.length) <= MaxCandidates} }

\* every matrix either variant can build
candidates ==
    {substitute(input.matrix, p1, p2, p3) :
        p1 \in {generated1[k] : k \in 1..Len(generated1)},
        p2 \in {generated2[k] : k \in 1..Len(generated2)},
        p3 \in {generated3[k] : k \in 1..Len(generated3)}}

InitEnumeration ==
    /\ input \in EnumerationInputs
    /\ scoring_fn = [matrix \in candidates |-> 0]
    /\ seq = seq_entry
    /\ par = idle
    /\ idle_outside("search")

NextEnumeration ==
    \/ SeqStep
    \/ SeqReturn
    \/ ParCall
    \/ ParFold
    \/ ParReturn

SpecEnumeration == InitEnumeration /\ [][NextEnumeration]_vars

\* the entries either variant has recorded so far
seq_recorded == IF seq.pc = "idle" THEN {} ELSE entries(seq.rs.records)

par_recorded ==
    IF par.pc = "idle" THEN {}
    ELSE UNION {entries(par.segs[k].rs.records) : k \in 1..Len(par.segs)}

\* C23: for every index the matrix the sequential variant scores as its
\* candidate of that index is the matrix the parallel variant materialises
\* for the index.
C23_SameCandidateAtIndex ==
    \A s \in seq_recorded : \A p \in par_recorded :
       s.index = p.index => s.matrix = p.matrix

\* a comes before b in the order of the deque: the larger score first, equal
\* scores by ascending enumeration index
before_in_deque(a, b) ==
    a.score > b.score \/ (a.score = b.score /\ a.index < b.index)

\* the deque is sorted and holds no index twice
sorted_deque(deque) ==
    /\ \A k \in 1..(Len(deque) - 1) : before_in_deque(deque[k], deque[k + 1])
    /\ \A j \in 1..Len(deque) : \A k \in 1..Len(deque) :
          deque[j].index = deque[k].index => j = k

\* C24: every record deque is sorted under the (score, index) comparator of
\* insert_sorted and the merge, equal scores in ascending enumeration index,
\* and holds each index at most once: after every consider_record and after
\* every merge, whichever operand the merge designates as left.
C24_DequeSorted ==
    /\ \A rs \in record_sets : sorted_deque(rs.records)
    /\ \A p \in reductions :
          sorted_deque(reduce_op(p[1], p[2], input.goal, max_records_opt).records)

\* two workers have finished adjacent chunks, the worker of the later chunk has
\* the better best score and so is the left operand of the merge, and both hold
\* an entry of the same score: the merge puts the two in index order
C24_Witness ==
    /\ par.pc = "run"
    /\ Len(par.segs) = 2
    /\ \A k \in 1..2 : par.segs[k].cur = par.segs[k].hi
    /\ ~first_is_left(input.goal, par.segs[1].rs.best_score, par.segs[2].rs.best_score)
    /\ LET merged == reduce_op(par.segs[1].rs, par.segs[2].rs, input.goal,
                              max_records_opt).records
       IN \E j \in 1..Len(merged) : \E k \in 1..Len(merged) :
             /\ j < k
             /\ merged[j].score = merged[k].score
             /\ merged[j] \in entries(par.segs[1].rs.records)
             /\ merged[k] \in entries(par.segs[2].rs.records)

\* the better of two scores under the goal, the first on a tie
better_score(goal, a, b) == IF goal_better(goal, b, a) THEN b ELSE a

\* the best of the initial score and the scores of the candidates lo .. hi - 1
RECURSIVE best_between(_, _)
best_between(lo, hi) ==
    IF hi <= lo THEN initial_score(input.goal)
    ELSE better_score(input.goal, best_between(lo, hi - 1),
                      scoring_fn[materialise(hi - 1)])

\* the candidates lo .. hi - 1 whose score satisfies the threshold
satisfying(lo, hi, threshold) ==
    {i \in lo..(hi - 1) :
        goal_better_or_equal(input.goal, scoring_fn[materialise(i)], threshold)}

\* the returned list holds exactly the first n candidates whose score
\* satisfies the threshold of the best score among them
returned_exactly(result, n) ==
    LET final == calculate_threshold(input.goal, best_between(0, n), input.tolerance)
        kept == satisfying(0, n, final)
    IN /\ Len(result.records) = Cardinality(kept)
       /\ {result.records[k] : k \in 1..Len(result.records)}
             = {materialise(i) : i \in kept}

\* C26: without a record cap the returned list holds exactly the enumerated
\* candidates whose score satisfies the final threshold: pruning during the
\* search and the reduction lose none, in either variant.  The list of the
\* sequential variant is looked at in the state it is returned in.
C26_NothingLost ==
    input.max_records_opt = None =>
       /\ (seq.pc = "returned" /\ par.pc = "idle") =>
             returned_exactly(Unwrap(seq.result), seq.n_permutations)
       /\ par.pc = "returned" =>
             returned_exactly(Unwrap(par.result), par.n_permutations)

\* the parallel variant has returned, under Min with tolerance 0.75 and no
\* record cap, some but not all of its four candidates
C26_Witness ==
    /\ par.pc = "returned"
    /\ input.goal = "Min"
    /\ input.tolerance = << 3, 4 >>
    /\ input.max_records_opt = None
    /\ par.n_permutations = 4
    /\ Len(Unwrap(par.result).records) = 3
    /\ scoring_fn[materialise(0)] = 3
    /\ scoring_fn[materialise(1)] = 2

\* the cells of a region and the keys of its pool
region_cells(region) ==
    {region_coordinates(region)[k] : k \in 1..region_length(region)}

region_keys(region) == {region.array[k] : k \in 1..region_length(region)}

search_regions == {input.region1, input.region2, input.region3}

\* matrix is the base matrix outside the regions, and the cells of every region
\* hold a permutation of the region's pool
well_substituted(matrix) ==
    /\ DOMAIN matrix = DOMAIN input.matrix
    /\ \A at \in DOMAIN matrix :
          (\A region \in search_regions : at \notin region_cells(region))
             => matrix[at] = input.matrix[at]
    /\ \A region \in search_regions :
          /\ {matrix[at] : at \in region_cells(region)} = region_keys(region)
          /\ Cardinality(region_cells(region)) = Cardinality(region_keys(region))

\* every candidate scored so far is well substituted: the working matrix of
\* the sequential variant after a candidate was built, and every matrix retained
candidates_well_substituted ==
    /\ (seq.pc # "idle" /\ seq.n_permutations >= 1) => well_substituted(seq.matrix)
    /\ \A e \in seq_recorded \cup par_recorded : well_substituted(e.matrix)

\* a step changes neither the base matrix nor the matrix retained for an index
retained_unchanged ==
    /\ input' = input
    /\ \A e \in seq_recorded : \A f \in seq_recorded' :
          e.index = f.index => e.matrix = f.matrix
    /\ \A e \in par_recorded : \A f \in par_recorded' :
          e.index = f.index => e.matrix = f.matrix

index_triples ==
    (0..(total1 - 1)) \X (0..(total2 - 1)) \X (0..(total3 - 1))

\* C28: the decomposition of the fold closure maps the indexes 0 .. N - 1 one
\* to one onto the triples [0, N1) x [0, N2) x [0, N3): every index the
\* parallel variant folds yields i1 < N1, i2 < N2 and i3 < N3, and distinct
\* indexes identify distinct triples of permutations, so distinct candidates.
C28_DecompositionBijective ==
    par.pc # "idle" =>
       /\ \A i \in 0..(expected_permutations - 1) : decompose(i) \in index_triples
       /\ {decompose(i) : i \in 0..(total_permutations - 1)} = index_triples
       /\ \A i \in 0..(total_permutations - 1) : \A j \in 0..(total_permutations - 1) :
             i # j => /\ decompose(i) # decompose(j)
                      /\ materialise(i) # materialise(j)

\* the parallel variant has folded all 24 indexes of regions with 2, 6 and 2
\* permutations
C28_Witness ==
    /\ par.pc = "returned"
    /\ total1 = 2
    /\ total2 = 6
    /\ total3 = 2
    /\ par.n_permutations = 24
    /\ Cardinality(par_recorded) = 24

(***************************************************************************)
(* src/src/permutations.rs: the shared counter of the parallel variant and *)
(* its progress calls.  rayon folds every chunk of the range on some       *)
(* worker; the workers share the atomic n_permutations and the mutex       *)
(* around progress_fn and nothing else.  A step of a worker that touches   *)
(* neither is taken together with the worker's next step that does: the    *)
(* fold closure runs on the items of the chunk up to the one that          *)
(* completes a batch, or to the end of the chunk.                          *)
(***************************************************************************)
\* the range is split into 1 .. MaxChunks chunks
MaxChunks == 2

\* the numbers of items of a chunk
ChunkSizes == {0, 1, BATCH, BATCH + 1, 2 * BATCH}

Chunkings == UNION {[1..n -> ChunkSizes] : n \in 1..MaxChunks}

\* map closure flushing nothing
remaining_none(local_n_permutations) == 0

\* map closure: `let remaining = local_n_permutations % BATCH`
remaining(local_n_permutations) == local_n_permutations % BATCH

\* the value of local_n_permutations at which the fold closure next touches
\* the counter, or at which the chunk ends
next_stop(w) == Min2(w.size, (w.local_n_permutations \div BATCH + 1) * BATCH)

worker_entry(size) ==
    [size |-> size, local_n_permutations |-> 0, current |-> 0,
     pc |-> IF size = 0 THEN "map" ELSE "fold"]

InitCounter ==
    /\ \E sizes \in Chunkings :
         cnt = [pc |-> "run", n_permutations |-> 0,
                workers |-> [k \in DOMAIN sizes |-> worker_entry(sizes[k])],
                calls |-> << >>, result |-> None]
    /\ idle_outside("counter")

\* The fold closure of worker k up to its next stop.  At a full batch:
\* `let current = n_permutations.fetch_add(BATCH, Relaxed) + BATCH`.
CntFold(k) ==
    LET w == cnt.workers[k]
        local == next_stop(w)
    IN /\ cnt.pc = "run"
       /\ w.pc = "fold"
       /\ IF local % BATCH = 0
          THEN cnt' = [cnt EXCEPT
                  !.n_permutations = cnt.n_permutations + BATCH,
                  !.workers[k] = [w EXCEPT !.local_n_permutations = local,
                                           !.current = cnt.n_permutations + BATCH,
                                           !.pc = "report"]]
          ELSE cnt' = [cnt EXCEPT
                  !.workers[k] = [w EXCEPT !.local_n_permutations = local,
                                           !.pc = "map"]]
       /\ UNCHANGED outside_counter

\* `if let Ok(mut progress_fn) = progress_fn.lock() { progress_fn(current, false); }`
CntReport(k) ==
    LET w == cnt.workers[k]
    IN /\ cnt.pc = "run"
       /\ w.pc = "report"
       /\ cnt' = [cnt EXCEPT
             !.calls = Append(cnt.calls, [n |-> w.current, force |-> FALSE]),
             !.workers[k].pc = IF w.local_n_permutations < w.size THEN "fold" ELSE "map"]
       /\ UNCHANGED outside_counter

\* the map closure on the result of worker k's fold
CntMap(k) ==
    LET w == cnt.workers[k]
    IN /\ cnt.pc = "run"
       /\ w.pc = "map"
       /\ cnt' = [cnt EXCEPT
             !.n_permutations = IF remaining(w.local_n_permutations) # 0
                                THEN cnt.n_permutations + remaining(w.local_n_permutations)
                                ELSE cnt.n_permutations,
             !.workers[k].pc = "finished"]
       /\ UNCHANGED outside_counter

\* reduce has returned: `let n_permutations = n_permutations.load(Relaxed)`,
\* the forced progress call, and the return of the count
CntReturn ==
    /\ cnt.pc = "run"
    /\ \A k \in DOMAIN cnt.workers : cnt.workers[k].pc = "finished"
    /\ cnt' = [cnt EXCEPT
          !.pc = "returned",
          !.calls = Append(cnt.calls, [n |-> cnt.n_permutations, force |-> TRUE]),
          !.result = Some(cnt.n_permutations)]
    /\ UNCHANGED outside_counter

NextCounter ==
    \/ \E k \in DOMAIN cnt.workers : CntFold(k)
    \/ \E k \in DOMAIN cnt.workers : CntReport(k)
    \/ \E k \in DOMAIN cnt.workers : CntMap(k)
    \/ CntReturn

SpecCounter == InitCounter /\ [][NextCounter]_vars

\* the number of items of the chunks 1 .. n: the permutations scored
RECURSIVE items_scored(_)
items_scored(n) ==
    IF n = 0 THEN 0 ELSE items_scored(n - 1) + cnt.workers[n].size

forced_calls == {j \in 1..Len(cnt.calls) : cnt.calls[j].force}

\* C29: once every worker has finished, the shared counter equals the number
\* of permutations scored, whatever the chunks and the interleaving; the
\* progress callback is then called with force = true exactly once, with that
\* number, after every call without force.
C29_CounterAndFinalCall ==
    /\ (\A k \in DOMAIN cnt.workers : cnt.workers[k].pc = "finished")
          => cnt.n_permutations = items_scored(Len(cnt.workers))
    /\ cnt.pc = "run" => forced_calls = {}
    /\ cnt.pc = "returned" =>
          /\ forced_calls = {Len(cnt.calls)}
          /\ cnt.calls[Len(cnt.calls)].n = items_scored(Len(cnt.workers))
          /\ cnt.result = Some(items_scored(Len(cnt.workers)))

\* two workers have folded chunks of BATCH + 1 and 2 * BATCH items, the call
\* that reports the second batch counted has overtaken the one of the first
C29_Witness ==
    /\ cnt.pc = "returned"
    /\ Len(cnt.workers) = 2
    /\ cnt.workers[1].size = BATCH + 1
    /\ cnt.workers[2].size = 2 * BATCH
    /\ Len(cnt.calls) = 4
    /\ cnt.calls[1].n = 2 * BATCH
    /\ cnt.calls[2].n = BATCH
    /\ cnt.calls[4] = [n |-> 3 * BATCH + 1, force |-> TRUE]

(***************************************************************************)
(* src/src/util/threads.rs: throttle.  Time is a count of clock ticks.     *)
(* The wrapper holds the mutex from its first statement to its return, so  *)
(* calls from several threads run one after the other, and a call is one   *)
(* step; std::thread::sleep returns after the requested duration or later. *)
(* The underlying function is taken not to panic: the mutex is never       *)
(* poisoned.                                                               *)
(***************************************************************************)
\* the clock is ticked up to MaxTime between calls
MaxTime == 6
\* calls made through one wrapper
MaxCalls == 3
\* ticks by which sleep may return late
MaxOversleep == 1

MinDurations == {0, 2, 3}

\* `Instant::now() - min_duration`
InitThrottle ==
    /\ \E min_duration \in MinDurations :
         thr = [pc |-> "ready", min_duration |-> min_duration, clock |-> 0,
                previous |-> 0 - min_duration, calls |-> << >>]
    /\ idle_outside("throttle")

\* time passes between two calls
ThrTick ==
    /\ thr.pc = "ready"
    /\ thr.clock < MaxTime
    /\ thr' = [thr EXCEPT !.clock = thr.clock + 1]
    /\ UNCHANGED outside_throttle

\* Instant::duration_since: zero when earlier is the later instant
duration_since(later, earlier) == IF later >= earlier THEN later - earlier ELSE 0

\* `let wait_time = min_duration - elapsed_duration`
wait_time(min_duration, elapsed_duration) == min_duration - elapsed_duration

\* The closure throttle returns, called with force; over is the lateness of
\* sleep.  A call is logged with the instant it read, the previous instant it
\* found, whether and when it invoked the underlying function, and what it
\* returned.
ThrCall(force, over) ==
    LET now == thr.clock
        elapsed_duration == duration_since(now, thr.previous)
        wait == wait_time(thr.min_duration, elapsed_duration)
        logged(fired, at) ==
            Append(thr.calls, [now |-> now, force |-> force, previous |-> thr.previous,
                               fired |-> fired, at |-> at, returned |-> fired])
    IN /\ thr.pc = "ready"
       /\ Len(thr.calls) < MaxCalls
       /\ IF elapsed_duration >= thr.min_duration
          THEN /\ over = 0
               /\ thr' = [thr EXCEPT !.previous = now, !.calls = logged(TRUE, now)]
          ELSE IF force
          THEN LET slept == IF wait > 0 THEN wait + over ELSE 0
               IN /\ wait > 0 \/ over = 0
                  /\ thr' = [thr EXCEPT !.clock = now + slept,
                                        !.previous = now + wait,
                                        !.calls = logged(TRUE, now + slept)]
          ELSE /\ over = 0
               /\ thr' = [thr EXCEPT !.calls = logged(FALSE, now)]
       /\ UNCHANGED outside_throttle

NextThrottle ==
    \/ ThrTick
    \/ \E force \in BOOLEAN : \E over \in 0..MaxOversleep : ThrCall(force, over)

SpecThrottle == InitThrottle /\ [][NextThrottle]_vars

\* the calls before call j that invoked the underlying function
fired_before(j) == {i \in 1..(j - 1) : thr.calls[i].fired}

\* the last of them
last_fired_before(j) == CHOOSE i \in fired_before(j) : \A h \in fired_before(j) : h <= i

\* call j is made inside the window of the last admitted call
inside_window(j) ==
    /\ fired_before(j) # {}
    /\ thr.calls[j].now - thr.calls[last_fired_before(j)].at < thr.min_duration

\* the previous instant after call j
previous_after(j) ==
    IF j < Len(thr.calls) THEN thr.calls[j + 1].previous ELSE thr.previous

\* C30: a call through the wrapper invokes the underlying function exactly
\* when at least min_duration has elapsed since the last admitted call or the
\* call is forced; the first call is admitted; a call without force inside the
\* window is dropped and leaves the window as it was; a forced call inside the
\* window waits out the remainder; so two consecutive invocations are never
\* closer than min_duration, and a forced call always fires.
C30_Throttle ==
    \A j \in 1..Len(thr.calls) :
       LET c == thr.calls[j]
       IN /\ c.fired <=> (~inside_window(j) \/ c.force)
          /\ c.returned = c.fired
          /\ j = 1 => c.fired
          /\ ~c.fired => previous_after(j) = c.previous
          /\ (c.fired /\ fired_before(j) # {}) =>
                c.at - thr.calls[last_fired_before(j)].at >= thr.min_duration
          /\ c.force => c.fired

\* the statements of C30 that are about the instants the wrapper keeps, not
\* about the instants of the invocations
C30_ThrottleByPrevious ==
    \A j \in 1..Len(thr.calls) :
       LET c == thr.calls[j]
       IN /\ c.fired <=> (c.now - c.previous >= thr.min_duration \/ c.force)
          /\ c.returned = c.fired
          /\ j = 1 => c.fired
          /\ ~c.fired => previous_after(j) = c.previous
          /\ c.fired => c.at >= c.previous + thr.min_duration
          /\ c.fired => previous_after(j) - c.previous >= thr.min_duration
          /\ c.force => c.fired

(***************************************************************************)
(* src/src/permutations.rs: consider_record and the reduce closure on      *)
(* partial results.  SpecReduction feeds the scores of the candidates of   *)
(* adjacent chunks to consider_record, one record set a chunk, and merges  *)
(* finished neighbours with the reduce closure in any grouping.  A         *)
(* candidate's matrix stands for itself: it is its index.                  *)
(***************************************************************************)
\* consider_record calls of one run
MaxReduced == 4
\* chunks of one run
MaxParts == 3

ReductionScores == {1, 2, 3}

\* max_records_opt as the variants receive it: K_max + 1
ReductionCaps == {None} \cup {Some(k + 1) : k \in 0..MaxRecordCap}

\* the fold of a chunk that starts at index lo, before its first item
part_entry(lo, goal, tolerance) ==
    [lo |-> lo, considered |-> << >>, chunks |-> 1, done |-> FALSE,
     rs |-> identity(goal, tolerance)]

InitReduction ==
    /\ \E goal \in Goals, tolerance \in Tolerances, cap \in ReductionCaps :
         red = [pc |-> "run", goal |-> goal, tolerance |-> tolerance,
                max_records_opt |-> cap,
                parts |-> << part_entry(0, goal, tolerance) >>]
    /\ idle_outside("reduction")

\* the index after the last one considered
next_index == red.parts[Len(red.parts)].lo + Len(red.parts[Len(red.parts)].considered)

\* the fold closure's consider_record on the next item of the last chunk
RedConsider ==
    /\ red.pc = "run"
    /\ next_index < MaxReduced
    /\ LET k == Len(red.parts)
           p == red.parts[k]
       IN /\ ~p.done
          /\ \E score \in ReductionScores :
               red' = [red EXCEPT
                  !.parts[k].considered = Append(p.considered, score),
                  !.parts[k].rs = consider_record(<< next_index >>, score, next_index,
                                                  red.goal, red.tolerance,
                                                  red.max_records_opt, p.rs)]
    /\ UNCHANGED outside_reduction

\* the last chunk ends; another one may begin at the next index
RedEndChunk ==
    /\ red.pc = "run"
    /\ LET k == Len(red.parts)
           p == red.parts[k]
       IN /\ ~p.done
          /\ p.considered # << >>
          /\ \E more \in BOOLEAN :
               /\ more => (Len(red.parts) < MaxParts /\ next_index < MaxReduced)
               /\ red' = [red EXCEPT
                     !.parts = [red.parts EXCEPT ![k].done = TRUE]
                         \o (IF more
                             THEN << part_entry(next_index, red.goal, red.tolerance) >>
                             ELSE << >>)]
    /\ UNCHANGED outside_reduction

\* the reduce closure on two finished neighbours
RedReduce ==
    /\ red.pc = "run"
    /\ \E k \in 1..(Len(red.parts) - 1) :
         LET a == red.parts[k]
             b == red.parts[k + 1]
         IN /\ a.done
            /\ b.done
            /\ red' = [red EXCEPT
                  !.parts = SubSeq(red.parts, 1, k - 1)
                      \o << [lo |-> a.lo, considered |-> a.considered \o b.considered,
                             chunks |-> a.chunks + b.chunks, done |-> TRUE,
                             rs |-> reduce_op(a.rs, b.rs, red.goal, red.max_records_opt)] >>
                      \o SubSeq(red.parts, k + 2, Len(red.parts))]
    /\ UNCHANGED outside_reduction

NextReduction == RedConsider \/ RedEndChunk \/ RedReduce

SpecReduction == InitReduction /\ [][NextReduction]_vars

\* the best, under the goal, of the initial score and the first n of scores
RECURSIVE best_considered_of(_, _, _)
best_considered_of(goal, scores, n) ==
    IF n = 0 THEN initial_score(goal)
    ELSE better_score(goal, best_considered_of(goal, scores, n - 1), scores[n])

\* C25: the best_score of a record set is the best, under the goal, of the
\* initial score and of every score considered so far, and its threshold_score
\* is calculate_threshold(goal, best_score, tolerance), after every
\* consider_record; after a merge both are those of the operand with the
\* better best_score, the first on a tie.
C25_BestAndThreshold ==
    red.pc = "run" =>
       /\ \A k \in 1..Len(red.parts) :
             LET p == red.parts[k]
             IN /\ p.rs.best_score
                      = best_considered_of(red.goal, p.considered, Len(p.considered))
                /\ p.rs.threshold_score
                      = calculate_threshold(red.goal, p.rs.best_score, red.tolerance)
       /\ \A k \in 1..(Len(red.parts) - 1) :
             LET a == red.parts[k].rs
                 b == red.parts[k + 1].rs
                 merged == reduce_op(a, b, red.goal, red.max_records_opt)
                 from == IF goal_better(red.goal, b.best_score, a.best_score)
                         THEN b ELSE a
             IN /\ merged.best_score = from.best_score
                /\ merged.threshold_score = from.threshold_score

\* three chunks with the scores 2, 3 and 1 have been merged into one partial
\* result under Min and tolerance 0.75: the best score is the third chunk's
C25_Witness ==
    /\ red.pc = "run"
    /\ red.goal = "Min"
    /\ red.tolerance = << 3, 4 >>
    /\ Len(red.parts) = 1
    /\ red.parts[1].chunks = 3
    /\ red.parts[1].considered = << 2, 3, 1 >>
    /\ red.parts[1].rs.best_score = 1
    /\ red.parts[1].rs.threshold_score = 2

=============================================================================
